---- MODULE Spec2Model ----
(***************************************************************************)
(* Offer ranking, diversity-capped selection and guaranteed-volume         *)
(* publishing of the Shopee -> Telegram affiliate bot.                     *)
(*                                                                         *)
(*   SpecRescue  : rescue_publish.publish_with_rescue as a unit, called    *)
(*                 with arbitrary pools and arbitrary callbacks.           *)
(*   SpecStorage : storage.Storage's Post Records (record_post,            *)
(*                 last_posted_at, can_repost) under a moving clock.       *)
(*   SpecSelect  : main's select_with_caps_and_dedupe on the ranking of    *)
(*                 any candidates of the catalog.                          *)
(*   Spec        : runs of shopee_bot.main, one after the other, on one    *)
(*                 posts table: collection, filter, dedupe, IA, ranking,   *)
(*                 selection and publish_with_rescue with main's callbacks.*)
(*   SpecRun     : one run of main over a wider feed.                      *)
(*   SpecRescueFair : SpecRescue with weak fairness of its steps.          *)
(*   SpecDedupe  : main's call of dedupe_by_signature on listings that     *)
(*                 share a signature, in every order.                      *)
(*   SpecRank    : main's IA stage and final ranking on candidates in any  *)
(*                 order.                                                  *)
(*   SpecSync    : conversions_sync's upserts of report nodes, and the     *)
(*                 EV signal compute_ev_signal reads from the store.       *)
(*   SpecConfig  : one run of main started in any environment.             *)
(*   SpecCollect : coletar_ofertas over a feed whose requests may fail.    *)
(*   SpecPublish : one call of main's publish_func, dry run or not.        *)
(*   SpecNames   : one run of main over offers that share a normalized     *)
(*                 name.                                                   *)
(*   SpecSteady  : publish_with_rescue with a can_repost whose answers     *)
(*                 never turn from False to True.                          *)
(*   SpecFailOpen: main's can_repost on any stored timestamp, with a       *)
(*                 lookup that raises or not.                              *)
(*   SpecIa      : SpecRank with IA answers that may omit offers.          *)
(*   SpecAuth    : requests of ShopeeClient._post_graphql_auto.            *)
(***************************************************************************)
EXTENDS Integers, Sequences, FiniteSets, TLC

\* ---------------------------------------------------------------- bounds
MaxPool == 2      \* longest ranked pool handed to publish_with_rescue
MaxExtra == 2     \* longest pool returned by collect_relaxed
MaxTarget == 2    \* largest max_posts
MaxId == 2        \* item ids are 0..MaxId (0 is what "missing id" turns into)
MaxDay == 9       \* the clock (in days) runs over 0..MaxDay
MaxRecords == 2   \* most Post Records written in SpecStorage
MaxRuns == 2      \* most runs of main
MaxSelTarget == 3 \* largest max_posts handed to the selector in SpecSelect
MaxSyncs == 2     \* most conversion nodes synced in SpecSync
MaxRequests == 2  \* most requests one ShopeeClient sends in SpecAuth

\* ---------------------------------------------------------------- state
VARIABLES
  pc,          \* position of the run
  ranked,      \* publish_with_rescue: ranked (the pool handed in)
  max_posts,   \* publish_with_rescue: max_posts
  has_relaxed, \* publish_with_rescue: collect_relaxed is not None
  extra,       \* publish_with_rescue: extra = collect_relaxed()
  posted,      \* publish_with_rescue: posted
  tried,       \* publish_with_rescue: tried
  seen,        \* publish_with_rescue: seen
  idx,         \* publish_with_rescue: idx (0-based, as in the source)
  i,           \* publish_with_rescue: i of step 2 (0-based)
  j,           \* publish_with_rescue: j of step 3 (0-based)
  calls,       \* log of the publish_func calls of this call: <<[pid, res, step]>>
  posts,       \* Storage: the rows of table posts, in insertion order
  now,         \* datetime.utcnow(), in days
  answer,      \* the call a specification looks at (can_repost, compute_ev_signal,
               \* the feed) and what it returned
  conv,        \* the line items of tables conversions/conversion_items
  cfg,         \* main: the configuration read from the environment
  gross,       \* main: gross (what coletar_ofertas returned)
  candidates,  \* main: candidates
  ia_by_id,    \* main: ia_by_id, item id -> pontuacao
  ranked_tuples, \* main: ranked_tuples
  sel,         \* select_with_caps_and_dedupe: chosen, cat_counts, seen_norm
  entry,       \* the clock and the number of Post Records when publish_with_rescue was entered
  runs         \* number of runs started

pwrVars == <<ranked, max_posts, has_relaxed, extra, posted, tried, seen, idx, i, j, calls>>
storeVars == <<posts, now>>
mainVars == <<cfg, gross, candidates, ia_by_id, ranked_tuples, sel, entry, runs>>
vars == <<pc, pwrVars, storeVars, answer, conv, mainVars>>

\* ---------------------------------------------------------------- helpers
SeqsUpTo(S, n) == UNION {[1..m -> S] : m \in 0..n}

Min(S) == CHOOSE x \in S : \A y \in S : x <= y

Max2(a, b) == IF a >= b THEN a ELSE b

ItemIds == 0..MaxId

\* A pool entry of the unit: a product dict of which only id_key is read.
UnitProducts == [itemId : ItemIds]

\* int(pool[i].get(id_key) or 0)
Pid(prod) == prod.itemId

\* Outcomes of one publish_func call: truthy, falsy, or an exception.
PublishResults == {"ok", "fail", "raise"}

\* ------------------------------------------------ numbers
\* Fractions (discount, EV signal, heuristic score) are held in units of
\* 1/Scale; ratings in tenths of a star; the final score in units of 1/10^6.
Scale == 100 * 100

Clamp(x, lo, hi) == IF x < lo THEN lo ELSE IF x > hi THEN hi ELSE x

RECURSIVE SumOver(_, _)
\* Sum of f[x] over the finite set S.
SumOver(S, f) ==
  IF S = {} THEN 0
  ELSE LET x == CHOOSE x \in S : TRUE IN f[x] + SumOver(S \ {x}, f)

\* ------------------------------------------------ names (shopee_bot.py)
\* A product name is a sequence of words.  What the regular expressions of the
\* source read off a word: its lower-case form and whether it matches
\* [A-Z...][\w\-]{2,} (capitalised, three characters or more).
Vocab ==
  [w \in {"Mouse", "Gamer", "X7", "RGB", "Teclado", "Redragon", "K2", "M5",
          "Caixa", "Som", "JBL", "Go", "Cabo"} |->
     CASE w = "Mouse"    -> [lower |-> "mouse",    brandlike |-> TRUE]
       [] w = "Gamer"    -> [lower |-> "gamer",    brandlike |-> TRUE]
       [] w = "X7"       -> [lower |-> "x7",       brandlike |-> FALSE]
       [] w = "RGB"      -> [lower |-> "rgb",      brandlike |-> TRUE]
       [] w = "Teclado"  -> [lower |-> "teclado",  brandlike |-> TRUE]
       [] w = "Redragon" -> [lower |-> "redragon", brandlike |-> TRUE]
       [] w = "K2"       -> [lower |-> "k2",       brandlike |-> FALSE]
       [] w = "M5"       -> [lower |-> "m5",       brandlike |-> FALSE]
       [] w = "Caixa"    -> [lower |-> "caixa",    brandlike |-> TRUE]
       [] w = "Som"      -> [lower |-> "som",      brandlike |-> TRUE]
       [] w = "JBL"      -> [lower |-> "jbl",      brandlike |-> TRUE]
       [] w = "Go"       -> [lower |-> "go",       brandlike |-> FALSE]
       [] w = "Cabo"     -> [lower |-> "cabo",     brandlike |-> TRUE]]

\* (name or "").lower(), word by word
LowerWords(name) == [k \in 1..Len(name) |-> Vocab[name[k]].lower]

\* CATS, in order: the category and the words its pattern finds (the patterns
\* of the categories no word of Vocab matches are left out; "outros" is .*).
CATS ==
  << [cat |-> "mouse/teclado/perifericos", words |-> {"mouse", "teclado", "mousepad"}],
     [cat |-> "smartwatch/wearables",      words |-> {"watch", "microwear", "s8", "series"}],
     [cat |-> "caixa de som/speaker",      words |-> {"caixa", "som", "speaker"}] >>

\* tag_categoria: the first category of CATS whose pattern matches, else "outros"
tag_categoria(name) ==
  LET hit == {c \in 1..Len(CATS) : \E k \in 1..Len(name) : LowerWords(name)[k] \in CATS[c].words}
  IN IF hit = {} THEN "outros" ELSE CATS[Min(hit)].cat

GENERIC_TOKENS ==
  {"gamer", "bluetooth", "original", "usb", "com fio", "sem fio", "led", "rgb",
   "headset", "fone", "mouse", "teclado"}

\* The one-word fillers norm_name deletes (" led", " rgb", " bluetooth",
\* " original", " gamer"); each is deleted together with the blank before it,
\* so a filler that is the first word stays.
NormFillers == {"led", "rgb", "bluetooth", "original", "gamer"}

RECURSIVE DropFillers(_, _)
DropFillers(ws, k) ==
  IF k > Len(ws) THEN <<>>
  ELSE IF k > 1 /\ ws[k] \in NormFillers THEN DropFillers(ws, k + 1)
  ELSE <<ws[k]>> \o DropFillers(ws, k + 1)

\* norm_name: lower case, punctuation to blanks, blanks collapsed, fillers
\* deleted.  The result is the sequence of the words that are left.
norm_name(name) == DropFillers(LowerWords(name), 1)

\* extract_brand: the first capitalised word of three characters or more whose
\* lower-case form is no generic token; else the last word; {} for no word.
extract_brand(name) ==
  LET hit == {k \in 1..Len(name) :
                Vocab[name[k]].brandlike /\ Vocab[name[k]].lower \notin GENERIC_TOKENS}
  IN IF hit # {} THEN {name[Min(hit)]}
     ELSE IF Len(name) > 0 THEN {name[Len(name)]} ELSE {}

\* make_signature_key: (cat, brand, dpi, btn); no word of Vocab carries a DPI
\* or a button count, so both are None ({}).
make_signature_key(name) ==
  [cat |-> tag_categoria(name), brand |-> extract_brand(name), dpi |-> {}, btn |-> {}]

\* ------------------------------------------------ offers
\* The offers the feed can return (nodes of productOfferV2), as coletar_ofertas
\* keeps them.  ratingStar in tenths, priceDiscountRate in 1/Scale.
Catalog ==
  << [itemId |-> 1, productName |-> <<"Mouse", "Gamer", "X7">>, ratingStar |-> 48,
      priceDiscountRate |-> 3000, sales |-> 500, shopName |-> "s1"],
     [itemId |-> 2, productName |-> <<"Mouse", "X7", "RGB">>, ratingStar |-> 49,
      priceDiscountRate |-> 2000, sales |-> 300, shopName |-> "s1"],
     [itemId |-> 3, productName |-> <<"Teclado", "Redragon", "K2">>, ratingStar |-> 47,
      priceDiscountRate |-> 5000, sales |-> 150, shopName |-> "s2"],
     [itemId |-> 4, productName |-> <<"Caixa", "Som", "JBL">>, ratingStar |-> 48,
      priceDiscountRate |-> 4000, sales |-> 200, shopName |-> ""],
     [itemId |-> 5, productName |-> <<"JBL", "Go">>, ratingStar |-> 45,
      priceDiscountRate |-> 1000, sales |-> 50, shopName |-> "s2"],
     [itemId |-> 6, productName |-> <<"Mouse", "M5">>, ratingStar |-> 50,
      priceDiscountRate |-> 10000, sales |-> 900, shopName |-> "s1"],
     [itemId |-> 0, productName |-> <<"Cabo", "Som">>, ratingStar |-> 49,
      priceDiscountRate |-> 6000, sales |-> 400, shopName |-> "s2"],
     [itemId |-> 7, productName |-> <<"Som", "JBL", "Go">>, ratingStar |-> 48,
      priceDiscountRate |-> 2500, sales |-> 120, shopName |-> "s2"] >>

\* ------------------------------------------------ ev_signal.py
\* exp(x / k) in units of 1/Scale, by its power series (x / k <= 3 in the model).
RECURSIVE ExpTerm(_, _, _)
ExpTerm(x, k, n) == IF n = 0 THEN Scale ELSE (ExpTerm(x, k, n - 1) * x) \div (k * n)

ExpTerms == 14

Exp(x, k) == SumOver(0..ExpTerms, [n \in 0..ExpTerms |-> ExpTerm(x, k, n)])

\* A saturation curve without the "1.0 -": exp(-x / k).
_sigmoid_like_decay(x, k) == IF x <= 0 THEN 0 ELSE (Scale * Scale) \div Exp(x, k)

\* _sigmoid_like: 0 for x <= 0, else 1 - exp(-x / k)
_sigmoid_like(x, k) == IF x <= 0 THEN 0 ELSE Scale - (Scale * Scale) \div Exp(x, k)

window_days == 28

\* SUM(item_total_commission) over the line items that satisfy match and whose
\* conversion has purchase_time NULL ({}) or >= cutoff
CommissionSum(store, cutoff, match(_)) ==
  LET rows == {k \in 1..Len(store) :
                 /\ match(store[k])
                 /\ \A t \in store[k].purchase_time : t >= cutoff}
  IN SumOver(rows, [k \in rows |-> store[k].item_total_commission])

\* The item's most frequent globalCategoryLv1Name over all its line items (no
\* window): {} when the item has none or the name is NULL/empty.
TopCategory(store, item_id) ==
  LET cats == {store[k].cat : k \in {m \in 1..Len(store) : store[m].item_id = item_id}}
      n(c) == Cardinality({k \in 1..Len(store) : store[k].item_id = item_id /\ store[k].cat = c})
      top == {c \in cats : \A d \in cats : n(d) <= n(c)}
  IN IF top = {} THEN {}
     ELSE LET c == CHOOSE c \in top : TRUE IN IF c = "" THEN {} ELSE {c}

\* The three trailing-window sums compute_ev_signal queries (cutoff is
\* time.time() - window_days days): the item's, the shop's (0.0 without a
\* shop name) and that of the item's top category (0.0 without one).
item_ev(store, item_id) ==
  CommissionSum(store, now - window_days, LAMBDA r : r.item_id = item_id)

shop_ev(store, shop_name) ==
  IF shop_name = "" THEN 0
  ELSE CommissionSum(store, now - window_days, LAMBDA r : r.shop_name = shop_name)

cat_ev(store, item_id) ==
  IF TopCategory(store, item_id) = {} THEN 0
  ELSE CommissionSum(store, now - window_days,
                     LAMBDA r : r.cat \in TopCategory(store, item_id))

\* compute_ev_signal(db_path, item_id, product_name, shop_name), in 1/Scale
compute_ev_signal(store, item_id, shop_name) ==
  (6 * _sigmoid_like(item_ev(store, item_id), 30)
     + 3 * _sigmoid_like(shop_ev(store, shop_name), 80)
     + 1 * _sigmoid_like(cat_ev(store, item_id), 150)) \div 10

\* ------------------------------------------------ storage.Storage (posts)
\* Default of COOLDOWN_REPOSTAGEM_DIAS.
COOLDOWN_DIAS == 5

\* Rows of table posts that belong to item_id.
PostsOf(rows, item_id) == {k \in 1..Len(rows) : rows[k].item_id = item_id}

\* A record_post that keeps one row per item: the row of item_id is replaced.
RecordPostUpsert(rows, item_id) ==
  Append(SelectSeq(rows, LAMBDA r : r.item_id # item_id),
         [item_id |-> item_id, posted_at |-> now])

\* record_post: INSERT INTO posts (...) VALUES (item_id, ..., _utcnow_iso())
RecordPost(rows, item_id) ==
  Append(rows, [item_id |-> item_id, posted_at |-> now])

\* last_posted_at: SELECT posted_at ... WHERE item_id=? ORDER BY posted_at DESC
\* LIMIT 1.  The Optional result is a set: {} for None, {posted_at} otherwise.
LastPostedAtOldest(rows, item_id) ==
  IF PostsOf(rows, item_id) = {} THEN {}
  ELSE {rows[Min(PostsOf(rows, item_id))].posted_at}

LastPostedAt(rows, item_id) ==
  IF PostsOf(rows, item_id) = {} THEN {}
  ELSE LET k == CHOOSE k \in PostsOf(rows, item_id) :
                  \A m \in PostsOf(rows, item_id) : rows[m].posted_at <= rows[k].posted_at
       IN {rows[k].posted_at}

\* A stored posted_at: the text _utcnow_iso writes for a day, or a text that is
\* no ISO timestamp.
IsoText(day) == [iso |-> TRUE, day |-> day]

Garbled == [iso |-> FALSE, day |-> 0]

\* datetime.fromisoformat(last): the Optional result is {} where it raises.
fromisoformat(text) == IF text.iso THEN {text.day} ELSE {}

\* A can_repost that refuses the repost when the timestamp cannot be parsed.
CanRepostStoredClosed(last, cooldown_days) ==
  /\ last # {} => \A text \in last : fromisoformat(text) # {}
  /\ \A text \in last : \A last_dt \in fromisoformat(text) : now >= last_dt + cooldown_days

\* The body of Storage.can_repost after the lookup; last is the Optional text
\* last_posted_at returned.  if not last: return True; a fromisoformat that
\* raises: return True; else utcnow() >= last_dt + timedelta(days=cooldown_days).
CanRepostStored(last, cooldown_days) ==
  IF last = {} THEN TRUE
  ELSE \A text \in last :
         IF fromisoformat(text) = {} THEN TRUE
         ELSE \A last_dt \in fromisoformat(text) : now >= last_dt + cooldown_days

\* Storage.can_repost on the rows of the model, whose posted_at are all written
\* by record_post.
StorageCanRepost(rows, item_id, cooldown_days) ==
  CanRepostStored({IsoText(day) : day \in LastPostedAt(rows, item_id)}, cooldown_days)

\* Time passes.
Tick ==
  /\ now < MaxDay
  /\ now' = now + 1

\* ------------------------------------------------ shopee_bot.py: pipeline
\* Defaults of MIN_RATING (tenths), MIN_DISCOUNT (1/Scale), MIN_SALES_DEFAULT,
\* MIN_IA_SCORE, MAX_CATEGORY_SHARE (percent).
MIN_RATING == 47
MIN_DISCOUNT == 1500
MIN_SALES_DEFAULT == 100
MIN_IA_SCORE == 65
MAX_CATEGORY_SHARE == 40

\* sorted(seq, key=key, reverse=True): descending and stable (equal keys keep
\* their order).
SortDesc(seq, key(_)) ==
  LET ins[k \in 0..Len(seq)] ==
        IF k = 0 THEN <<>>
        ELSE SelectSeq(ins[k - 1], LAMBDA y : key(y) >= key(seq[k]))
               \o <<seq[k]>>
               \o SelectSeq(ins[k - 1], LAMBDA y : key(y) < key(seq[k]))
  IN ins[Len(seq)]

\* dedup = {it["itemId"]: it for it in ofertas}; list(dedup.values()): one entry
\* per id, at the place of the id's first occurrence, holding its last record.
DedupById(ofertas) ==
  LET first == {k \in 1..Len(ofertas) :
                  \A m \in 1..(k - 1) : ofertas[m].itemId # ofertas[k].itemId}
      last(k) == CHOOSE m \in 1..Len(ofertas) :
                   /\ ofertas[m].itemId = ofertas[k].itemId
                   /\ \A n \in (m + 1)..Len(ofertas) : ofertas[n].itemId # ofertas[k].itemId
      pick[k \in 0..Len(ofertas)] ==
        IF k = 0 THEN <<>>
        ELSE pick[k - 1] \o (IF k \in first THEN <<ofertas[last(k)]>> ELSE <<>>)
  IN pick[Len(ofertas)]

\* heuristic_score: 0.45 * disc + 0.35 * rating_n + 0.20 * ev, in 1/Scale
heuristic_score(store, prod) ==
  LET rating_n == Clamp((prod.ratingStar - 45) * (Scale \div 5), 0, Scale)
      ev == compute_ev_signal(store, prod.itemId, prod.shopName)
  IN (45 * prod.priceDiscountRate + 35 * rating_n + 20 * ev) \div 100

\* filter_quality_by_category (no category of the model is one of the two with
\* the lighter rating threshold)
filter_quality_by_category(products, min_rating) ==
  SelectSeq(products, LAMBDA p :
    /\ p.ratingStar >= min_rating
    /\ p.priceDiscountRate >= MIN_DISCOUNT
    /\ p.sales >= MIN_SALES_DEFAULT)

\* A deduplication that keeps the first offer of each signature and never
\* compares scores.
dedupe_first_seen(cands, store) ==
  LET key(k) == make_signature_key(cands[k].productName)
  IN SelectSeq(cands, LAMBDA p :
       \E k \in 1..Len(cands) :
         cands[k] = p /\ \A m \in 1..(k - 1) : key(m) # key(k))

\* dedupe_by_signature: per signature the first offer with the highest
\* heuristic score, in the order of the signatures' first occurrence
dedupe_by_signature(cands, store) ==
  LET key(k) == make_signature_key(cands[k].productName)
      score(k) == heuristic_score(store, cands[k])
      first == {k \in 1..Len(cands) : \A m \in 1..(k - 1) : key(m) # key(k)}
      best(k) == CHOOSE m \in 1..Len(cands) :
                   /\ key(m) = key(k)
                   /\ \A n \in 1..Len(cands) : key(n) = key(k) =>
                        \/ score(n) < score(m)
                        \/ (score(n) = score(m) /\ n >= m)
      pick[k \in 0..Len(cands)] ==
        IF k = 0 THEN <<>>
        ELSE pick[k - 1] \o (IF k \in first THEN <<cands[best(k)]>> ELSE <<>>)
  IN pick[Len(cands)]

\* What analyze_products can do with a batch: raise, fail to parse twice (every
\* offer gets 50), or return a parsed answer giving some offers a score.
IaScores == {40, 90}

\* A fallback that gives every offer the score of an unparsed answer.
FallbackScoreUnparsed(store, prod) == 50

\* int(55 + (82 - 55) * max(0.0, min(1.0, pre))): the score main gives an offer
\* of a batch whose analyze_products call raised
FallbackScore(store, prod) ==
  55 + ((82 - 55) * Clamp(heuristic_score(store, prod), 0, Scale)) \div Scale

\* ia_by_id after the IA stage (IA_ENABLED, one batch: at most IA_TOP_K = 10
\* candidates).  kind is what analyze_products did: "raise", "unparsed" (every
\* offer with an id gets 50) or "parsed", and then scores maps the ids the
\* answer mentions to the scores it gives them.
IaById(cands, store, kind, scores) ==
  LET ids == {cands[k].itemId : k \in 1..Len(cands)}
      of(id) == CHOOSE k \in 1..Len(cands) : cands[k].itemId = id
  IN IF kind = "raise" THEN [id \in ids |-> FallbackScore(store, cands[of(id)])]
     ELSE IF kind = "unparsed" THEN [id \in ids \ {0} |-> 50]
     ELSE scores

\* The ranking gate and the final score of one candidate:
\* final = 0.45 * ia_n + 0.25 * disc_n + 0.30 * ev, in 1/10^6
PassesGateAlways(ia, p) == p.itemId \in DOMAIN ia

PassesGate(ia, p) == p.itemId \in DOMAIN ia /\ ia[p.itemId] >= MIN_IA_SCORE

FinalScore(ia, p, store) ==
  4500 * ia[p.itemId] + 25 * p.priceDiscountRate
    + 30 * compute_ev_signal(store, p.itemId, p.shopName)

\* ranked_tuples: the gated candidates with their final score, sorted by it
\* (descending, stable)
RankedTuples(cands, ia, store) ==
  LET kept == SelectSeq(cands, LAMBDA p : PassesGate(ia, p))
      tuples == [k \in 1..Len(kept) |->
                   [final |-> FinalScore(ia, kept[k], store), ia |-> ia[kept[k].itemId],
                    prod |-> kept[k]]]
  IN SortDesc(tuples, LAMBDA t : t.final)

\* ------------------------------------------------ select_with_caps_and_dedupe
\* int(x / 100): truncation towards zero
TruncPercent(x) == IF x >= 0 THEN x \div 100 ELSE -((-x) \div 100)

\* cap = max(1, int(max_posts * max_share)), max_share in percent
Cap(target, max_share) == Max2(1, TruncPercent(target * max_share))

\* cat_counts.get(cat, 0)
CountOf(cat_counts, cat) == IF cat \in DOMAIN cat_counts THEN cat_counts[cat] ELSE 0

\* db.can_repost(item_id, cooldown_days=cooldown_days) as the selector calls it
SelCanRepostAlways(rows, item_id) == TRUE

SelCanRepost(rows, item_id) == StorageCanRepost(rows, item_id, COOLDOWN_DIAS)

\* One iteration of the first loop (lines 761-777) on tuple t.
CappedIterNoCap(st, t, target, max_share, rows) ==
  LET cat == tag_categoria(t.prod.productName)
      norm == norm_name(t.prod.productName)
  IN IF \/ Len(st.chosen) >= target
        \/ t.prod.itemId = 0
        \/ ~SelCanRepost(rows, t.prod.itemId)
        \/ norm \in st.seen_norm
       THEN st
       ELSE [chosen |-> Append(st.chosen, t),
             seen_norm |-> st.seen_norm \cup {norm},
             cat_counts |-> [c \in DOMAIN st.cat_counts \cup {cat} |->
                               CountOf(st.cat_counts, c) + (IF c = cat THEN 1 ELSE 0)]]

\* A first loop without the break at len(chosen) >= max_posts.
CappedIterNoStop(st, t, target, max_share, rows) ==
  LET cat == tag_categoria(t.prod.productName)
      norm == norm_name(t.prod.productName)
  IN IF \/ t.prod.itemId = 0
        \/ ~SelCanRepost(rows, t.prod.itemId)
        \/ norm \in st.seen_norm
        \/ CountOf(st.cat_counts, cat) >= Cap(target, max_share)
       THEN st
       ELSE [chosen |-> Append(st.chosen, t),
             seen_norm |-> st.seen_norm \cup {norm},
             cat_counts |-> [c \in DOMAIN st.cat_counts \cup {cat} |->
                               CountOf(st.cat_counts, c) + (IF c = cat THEN 1 ELSE 0)]]

CappedIter(st, t, target, max_share, rows) ==
  LET cat == tag_categoria(t.prod.productName)
      norm == norm_name(t.prod.productName)
  IN IF \/ Len(st.chosen) >= target
        \/ t.prod.itemId = 0
        \/ ~SelCanRepost(rows, t.prod.itemId)
        \/ norm \in st.seen_norm
        \/ CountOf(st.cat_counts, cat) >= Cap(target, max_share)
       THEN st
       ELSE [chosen |-> Append(st.chosen, t),
             seen_norm |-> st.seen_norm \cup {norm},
             cat_counts |-> [c \in DOMAIN st.cat_counts \cup {cat} |->
                               CountOf(st.cat_counts, c) + (IF c = cat THEN 1 ELSE 0)]]

\* A second loop without the name guard.
BackfillIterNoNameGuard(st, t, target, rows) ==
  IF \/ Len(st.chosen) >= target
     \/ t.prod.itemId = 0
     \/ ~SelCanRepost(rows, t.prod.itemId)
    THEN st
    ELSE [st EXCEPT !.chosen = Append(st.chosen, t),
                    !.seen_norm = st.seen_norm \cup {norm_name(t.prod.productName)}]

\* One iteration of the second loop (lines 780-790) on tuple t.
BackfillIter(st, t, target, rows) ==
  LET norm == norm_name(t.prod.productName)
  IN IF \/ Len(st.chosen) >= target
        \/ t.prod.itemId = 0
        \/ ~SelCanRepost(rows, t.prod.itemId)
        \/ norm \in st.seen_norm
       THEN st
       ELSE [st EXCEPT !.chosen = Append(st.chosen, t),
                       !.seen_norm = st.seen_norm \cup {norm}]

\* The first loop over ranked: category caps, cooldown and name guard.
CappedLoop(tuples, target, max_share, rows) ==
  LET run[k \in 0..Len(tuples)] ==
        IF k = 0 THEN [chosen |-> <<>>, cat_counts |-> <<>>, seen_norm |-> {}]
        ELSE CappedIter(run[k - 1], tuples[k], target, max_share, rows)
  IN run[Len(tuples)]

\* The second loop over ranked (entered if len(chosen) < max_posts): cooldown
\* and name guard only.
BackfillLoop(st0, tuples, target, rows) ==
  LET run[k \in 0..Len(tuples)] ==
        IF k = 0 THEN st0 ELSE BackfillIter(run[k - 1], tuples[k], target, rows)
  IN IF Len(st0.chosen) < target THEN run[Len(tuples)] ELSE st0

\* Does the loop call db.can_repost at all (so that the store can fail it)?
CallsStore(tuples, target) ==
  target > 0 /\ \E k \in 1..Len(tuples) : tuples[k].prod.itemId # 0

\* ------------------------------------------------ publish_with_rescue
\* The loop condition of the three steps: posted < max_posts.
ShortOffByOne == posted <= max_posts

Short == posted < max_posts

\* pid and pid not in seen and can_repost(pid); can is what can_repost answers
\* to the call made for the entry at (1-based) position k.
Eligible(pool, k, can) ==
  /\ Pid(pool[k]) # 0
  /\ Pid(pool[k]) \notin seen
  /\ can

\* A _pick_next that looks at the entry at start_idx only.
PickNextOnlyFirst(pool, start_idx, ans) ==
  IF start_idx < Len(pool) /\ Eligible(pool, start_idx + 1, ans[start_idx + 1])
    THEN start_idx
    ELSE -1

\* _pick_next(pool, start_idx): 0-based index of the first eligible entry at or
\* after start_idx, -1 when there is none; ans[k] is the answer of the
\* can_repost call made for the entry at (1-based) position k.
PickNext(pool, start_idx, ans) ==
  LET hits == {k \in start_idx..(Len(pool) - 1) : Eligible(pool, k + 1, ans[k + 1])}
  IN IF hits = {} THEN -1 ELSE Min(hits)

\* tried += 1 ; ok = publish_func(prod) ; if ok: posted += 1
CountedOnlyOnFailure(res) ==
  /\ tried' = tried + (IF res = "ok" THEN 0 ELSE 1)
  /\ posted' = posted + (IF res = "ok" THEN 1 ELSE 0)

Counted(res) ==
  /\ tried' = tried + 1
  /\ posted' = posted + (IF res = "ok" THEN 1 ELSE 0)

\* An attempt that forgets the id it was made for (nothing is added to seen).
AttemptNotRemembered(prod, res, step, next_pc) ==
  /\ Counted(res)
  /\ seen' = seen
  /\ calls' = Append(calls, [pid |-> Pid(prod), res |-> res, step |-> step])
  /\ pc' = IF res = "raise" THEN "raised" ELSE next_pc

\* One publish_func call on prod in the given step, with its bookkeeping.
\* An exception of publish_func is not caught by publish_with_rescue.
Attempt(prod, res, step, next_pc) ==
  /\ Counted(res)
  /\ seen' = seen \cup {Pid(prod)}
  /\ calls' = Append(calls, [pid |-> Pid(prod), res |-> res, step |-> step])
  /\ pc' = IF res = "raise" THEN "raised" ELSE next_pc

\* 1) one iteration of the first loop that finds a next entry and publishes it
Pass1Publish(ans, res) ==
  /\ pc = "pass1"
  /\ Short
  /\ LET nxt == PickNext(ranked, idx, ans) IN
       /\ nxt # -1
       /\ Attempt(ranked[nxt + 1], res, 1, "pass1")
       /\ idx' = IF res = "raise" THEN idx ELSE nxt + 1
  /\ UNCHANGED <<ranked, max_posts, has_relaxed, extra, i, j>>

\* 1) the first loop ends: target reached, or _pick_next returned -1
Pass1End(ans) ==
  /\ pc = "pass1"
  /\ (~Short \/ PickNext(ranked, idx, ans) = -1)
  /\ pc' = "pass2"
  /\ i' = idx
  /\ UNCHANGED <<ranked, max_posts, has_relaxed, extra, posted, tried, seen, idx, j, calls>>

\* A backfill loop that moves on only after an attempt (i += 1 after the
\* continue instead of before it).
Pass2IterStuck(can, res) ==
  /\ pc = "pass2"
  /\ Short
  /\ i < Len(ranked)
  /\ IF Eligible(ranked, i + 1, can)
       THEN /\ Attempt(ranked[i + 1], res, 2, "pass2")
            /\ i' = IF res = "raise" THEN i ELSE i + 1
       ELSE UNCHANGED <<pc, posted, tried, seen, calls, i>>
  /\ UNCHANGED <<ranked, max_posts, has_relaxed, extra, idx, j>>

\* 2) one iteration of the backfill loop over the rest of the ranking
Pass2Iter(can, res) ==
  /\ pc = "pass2"
  /\ Short
  /\ i < Len(ranked)
  /\ IF Eligible(ranked, i + 1, can)
       THEN /\ Attempt(ranked[i + 1], res, 2, "pass2")
            /\ i' = IF res = "raise" THEN i ELSE i + 1
       ELSE /\ i' = i + 1
            /\ UNCHANGED <<pc, posted, tried, seen, calls>>
  /\ UNCHANGED <<ranked, max_posts, has_relaxed, extra, idx, j>>

\* Pass2End with the test `posted < max_posts` of step 3 left out.
Pass2EndAlwaysRescue ==
  /\ pc = "pass2"
  /\ ~(Short /\ i < Len(ranked))
  /\ pc' = IF has_relaxed THEN "rescue" ELSE "done"
  /\ UNCHANGED pwrVars

\* 2) the backfill loop ends; 3) is entered if still short and a
\* collect_relaxed was given
Pass2End ==
  /\ pc = "pass2"
  /\ ~(Short /\ i < Len(ranked))
  /\ pc' = IF Short /\ has_relaxed THEN "rescue" ELSE "done"
  /\ UNCHANGED pwrVars

\* 3) extra = collect_relaxed(); j = 0.  raises: collect_relaxed ends with an
\* exception, which publish_with_rescue does not catch.
Rescue(pool, raises) ==
  /\ pc = "rescue"
  /\ IF raises
       THEN pc' = "raised" /\ UNCHANGED <<extra, j>>
       ELSE pc' = "pass3" /\ extra' = pool /\ j' = 0
  /\ UNCHANGED <<ranked, max_posts, has_relaxed, posted, tried, seen, idx, i, calls>>

\* 3) one iteration of the loop over the relaxed pool
Pass3Iter(can, res) ==
  /\ pc = "pass3"
  /\ Short
  /\ j < Len(extra)
  /\ IF Eligible(extra, j + 1, can)
       THEN /\ Attempt(extra[j + 1], res, 3, "pass3")
            /\ j' = IF res = "raise" THEN j ELSE j + 1
       ELSE /\ j' = j + 1
            /\ UNCHANGED <<pc, posted, tried, seen, calls>>
  /\ UNCHANGED <<ranked, max_posts, has_relaxed, extra, idx, i>>

\* 3) the loop over the relaxed pool ends; return posted, tried
Pass3End ==
  /\ pc = "pass3"
  /\ ~(Short /\ j < Len(extra))
  /\ pc' = "done"
  /\ UNCHANGED pwrVars

\* posted = 0 ; tried = 0 ; seen = set() ; idx = 0
PwrEntry(pool, target, relaxed) ==
  /\ ranked = pool
  /\ max_posts = target
  /\ has_relaxed = relaxed
  /\ extra = <<>>
  /\ posted = 0
  /\ tried = 0
  /\ seen = {}
  /\ idx = 0
  /\ i = 0
  /\ j = 0
  /\ calls = <<>>

\* The variables of main while no run of main is modelled.
NoCfg == [QTD_POSTS |-> 0, MAX_CATEGORY_SHARE |-> 0]

NoEntry == [day |-> 0, rows |-> 0]

NoSel == [chosen |-> <<>>, cat_counts |-> <<>>, seen_norm |-> {}]

MainIdle ==
  /\ cfg = NoCfg
  /\ gross = <<>>
  /\ candidates = <<>>
  /\ ia_by_id = <<>>
  /\ ranked_tuples = <<>>
  /\ sel = NoSel
  /\ entry = NoEntry
  /\ runs = 0

\* ------------------------------------------------ shopee_bot.py: main's callbacks
\* can_repost(item_id) of main: db.can_repost, and True when that call raises.
can_repost_never(item_id, raises) == FALSE

\* try: return db.can_repost(...) except Exception: return True
FailOpen(raises, result) == raises \/ result

can_repost(item_id, raises) ==
  FailOpen(raises, StorageCanRepost(posts, item_id, COOLDOWN_DIAS))

\* What one publish_func call meets: the sink accepts the message and the post
\* is recorded ("sent"), the sink reports failure, the sink raises, or the sink
\* accepts and record_post raises.
PublishOutcomes == {"sent", "sink_false", "sink_raises", "record_raises"}

\* publish_func's return value as publish_with_rescue sees it: every exception
\* is caught and answered with False.
PublishFuncNoCatch(outcome) ==
  IF outcome = "sent" THEN "ok" ELSE IF outcome = "sink_false" THEN "fail" ELSE "raise"

PublishFunc(outcome) == IF outcome = "sent" THEN "ok" ELSE "fail"

\* collect_relaxed: gross under the relaxed thresholds, deduplicated by
\* signature and sorted by heuristic score (no blocklist pattern configured).
collect_relaxed(offers, store) ==
  IF offers = <<>> THEN <<>>
  ELSE LET relaxed == SelectSeq(offers, LAMBDA p :
                        /\ p.ratingStar >= Max2(45, MIN_RATING - 3)
                        /\ p.priceDiscountRate >= Max2(500, MIN_DISCOUNT - 800)
                        /\ p.sales >= Max2(20, MIN_SALES_DEFAULT \div 4))
       IN SortDesc(dedupe_by_signature(relaxed, store),
                   LAMBDA p : heuristic_score(store, p))

\* publish_pool: the products of the selected tuples
publish_pool(chosen) == [k \in 1..Len(chosen) |-> chosen[k].prod]

\* ------------------------------------------------ SpecRescue: the unit
\* What can_repost may answer to the calls of one _pick_next scan.
Answers(pool, start_idx) == [(start_idx + 1)..Len(pool) -> BOOLEAN]

NoAnswer == [item_id |-> 0, cooldown_days |-> 0, at |-> 0, rows |-> 0, result |-> TRUE]

InitRescue ==
  /\ pc = "pass1"
  /\ posts = <<>>
  /\ now = 0
  /\ answer = NoAnswer
  /\ conv = <<>>
  /\ MainIdle
  /\ \E pool \in SeqsUpTo(UnitProducts, MaxPool), target \in -1..MaxTarget, relaxed \in BOOLEAN :
       PwrEntry(pool, target, relaxed)

\* The unit's callbacks touch nothing the model holds.
UnitFrame == UNCHANGED <<storeVars, answer, conv, mainVars>>

UPass1Publish ==
  /\ \E ans \in Answers(ranked, idx), res \in PublishResults : Pass1Publish(ans, res)
  /\ UnitFrame

UPass1End ==
  /\ \E ans \in Answers(ranked, idx) : Pass1End(ans)
  /\ UnitFrame

UPass2Iter ==
  /\ \E can \in BOOLEAN, res \in PublishResults : Pass2Iter(can, res)
  /\ UnitFrame

UPass2End ==
  /\ Pass2End
  /\ UnitFrame

URescue ==
  /\ \E pool \in SeqsUpTo(UnitProducts, MaxExtra), raises \in BOOLEAN : Rescue(pool, raises)
  /\ UnitFrame

UPass3Iter ==
  /\ \E can \in BOOLEAN, res \in PublishResults : Pass3Iter(can, res)
  /\ UnitFrame

UPass3End ==
  /\ Pass3End
  /\ UnitFrame

NextRescue ==
  \/ UPass1Publish
  \/ UPass1End
  \/ UPass2Iter
  \/ UPass2End
  \/ URescue
  \/ UPass3Iter
  \/ UPass3End

SpecRescue == InitRescue /\ [][NextRescue]_vars

\* The same calls, with a scheduler that lets the function run: a step of
\* publish_with_rescue that can be taken is eventually taken.
SpecRescueFair == InitRescue /\ [][NextRescue]_vars /\ WF_vars(NextRescue)

\* ------------------------------------------------ SpecSteady: steady cooldown
\* Calls of publish_with_rescue without a collect_relaxed (its default, None)
\* whose can_repost is a function of the identifier that may turn from True to
\* False while the call runs (a post was recorded) and never from False to
\* True.  answer.can is what can_repost answers now.
SteadyAnswers == [ItemIds \ {0} -> BOOLEAN]

\* The answers can_repost gives to the calls made for the entries of pool.
SteadyScan(pool) ==
  [k \in 1..Len(pool) |-> IF Pid(pool[k]) = 0 THEN FALSE ELSE answer.can[Pid(pool[k])]]

InitSteady ==
  /\ pc = "pass1"
  /\ posts = <<>>
  /\ now = 0
  /\ answer \in {[can |-> f] : f \in SteadyAnswers}
  /\ conv = <<>>
  /\ MainIdle
  /\ \E pool \in SeqsUpTo(UnitProducts, MaxPool), target \in -1..MaxTarget :
       PwrEntry(pool, target, FALSE)

\* can_repost stops answering True for one identifier.
Revoke(pid) ==
  /\ pc \in {"pass1", "pass2"}
  /\ answer.can[pid]
  /\ answer' = [can |-> [answer.can EXCEPT ![pid] = FALSE]]
  /\ UNCHANGED <<pc, pwrVars, storeVars, conv, mainVars>>

SPass1Publish ==
  /\ \E res \in PublishResults : Pass1Publish(SteadyScan(ranked), res)
  /\ UnitFrame

SPass1End ==
  /\ Pass1End(SteadyScan(ranked))
  /\ UnitFrame

SPass2Iter ==
  /\ pc = "pass2"
  /\ i < Len(ranked)
  /\ \E res \in PublishResults : Pass2Iter(SteadyScan(ranked)[i + 1], res)
  /\ UnitFrame

NextSteady ==
  \/ \E pid \in ItemIds \ {0} : Revoke(pid)
  \/ SPass1Publish
  \/ SPass1End
  \/ SPass2Iter
  \/ UPass2End

SpecSteady == InitSteady /\ [][NextSteady]_vars

\* ------------------------------------------------ SpecStorage: Post Records
CooldownChoices == {2, COOLDOWN_DIAS}

PwrIdle == PwrEntry(<<>>, 0, FALSE)

InitStorage ==
  /\ pc = "storage"
  /\ posts = <<>>
  /\ now = 0
  /\ answer = NoAnswer
  /\ conv = <<>>
  /\ MainIdle
  /\ PwrIdle

SRecordPost ==
  /\ pc = "storage"
  /\ Len(posts) < MaxRecords
  /\ \E item_id \in 1..MaxId : posts' = RecordPost(posts, item_id)
  /\ UNCHANGED <<pc, pwrVars, now, answer, conv, mainVars>>

STick ==
  /\ pc = "storage"
  /\ Tick
  /\ UNCHANGED <<pc, pwrVars, posts, answer, conv, mainVars>>

\* A can_repost call; answer keeps its arguments, the clock and the number of
\* rows at the call, and the result.
SCanRepost ==
  /\ pc = "storage"
  /\ \E item_id \in 1..MaxId, cooldown_days \in CooldownChoices :
       answer' = [item_id |-> item_id, cooldown_days |-> cooldown_days, at |-> now,
                  rows |-> Len(posts),
                  result |-> StorageCanRepost(posts, item_id, cooldown_days)]
  /\ UNCHANGED <<pc, pwrVars, posts, now, conv, mainVars>>

NextStorage ==
  \/ SRecordPost
  \/ STick
  \/ SCanRepost

SpecStorage == InitStorage /\ [][NextStorage]_vars

\* ------------------------------------------------ SpecFailOpen: the cooldown check
\* One check of an offer's cooldown by main's can_repost, for every stored
\* timestamp last_posted_at can return and a lookup that raises or not.
StoredTexts == {{}} \cup {{IsoText(day)} : day \in 0..MaxDay} \cup {{Garbled}}

NoCheck == [last |-> {}, raises |-> FALSE, at |-> 0, storage |-> {}, wrapper |-> TRUE]

InitFailOpen ==
  /\ pc = "cooldown"
  /\ posts = <<>>
  /\ now = 0
  /\ answer = NoCheck
  /\ conv = <<>>
  /\ MainIdle
  /\ PwrIdle

FTick ==
  /\ pc = "cooldown"
  /\ Tick
  /\ UNCHANGED <<pc, pwrVars, posts, answer, conv, mainVars>>

\* can_repost(item_id) of main.  answer keeps what the store holds, whether the
\* lookup raised, the clock, what Storage.can_repost returned ({} when it did
\* not return) and what main's can_repost returned.
CheckCooldown(last, raises) ==
  /\ pc = "cooldown"
  /\ answer' = [last |-> last, raises |-> raises, at |-> now,
                storage |-> IF raises THEN {}
                            ELSE {CanRepostStored(last, COOLDOWN_DIAS)},
                wrapper |-> FailOpen(raises, CanRepostStored(last, COOLDOWN_DIAS))]
  /\ UNCHANGED <<pc, pwrVars, posts, now, conv, mainVars>>

NextFailOpen ==
  \/ FTick
  \/ \E last \in StoredTexts, raises \in BOOLEAN : CheckCooldown(last, raises)

SpecFailOpen == InitFailOpen /\ [][NextFailOpen]_vars

\* ------------------------------------------------ Spec: runs of main
Targets == -1..MaxTarget

\* The offers of the catalog (by position) that the feed of a run of main may
\* return: an ordinary one, one with the highest discount and one without id.
FeedOffers == {1, 6, 7}

\* What a feed over the offers at the positions S can return: any of them, in
\* catalog order.
FeedsOf(S) ==
  {SelectSeq(Catalog, LAMBDA p : \E k \in T : Catalog[k] = p) : T \in SUBSET S}

\* What the feed returns to one run.
Feeds == FeedsOf(FeedOffers)

\* The conversions store: one line item, which earned a commission for item 6
\* of shop s1.
ConvStore ==
  <<[conversion_id |-> 1, item_id |-> 6, shop_name |-> "s1", cat |-> "",
     item_total_commission |-> 90, purchase_time |-> {0}]>>

\* What a parsed IA answer may say about the candidates.
ParsedScores(cands) == [{cands[k].itemId : k \in 1..Len(cands)} \ {0} -> IaScores]

BetweenRuns == {"idle", "done", "done_empty", "fatal"}

\* Locals of publish_with_rescue at its entry, as next-state values.
PwrStart(pool, target, relaxed) ==
  /\ ranked' = pool
  /\ max_posts' = target
  /\ has_relaxed' = relaxed
  /\ extra' = <<>>
  /\ posted' = 0
  /\ tried' = 0
  /\ seen' = {}
  /\ idx' = 0
  /\ i' = 0
  /\ j' = 0
  /\ calls' = <<>>

InitMain ==
  /\ pc = "idle"
  /\ posts = <<>>
  /\ now = 0
  /\ answer = NoAnswer
  /\ conv = ConvStore
  /\ MainIdle
  /\ PwrIdle

\* A new process starts main and reads its configuration.
StartRun(q) ==
  /\ pc = "idle"
  /\ runs < MaxRuns
  /\ pc' = "collect"
  /\ runs' = runs + 1
  /\ cfg' = [QTD_POSTS |-> q, MAX_CATEGORY_SHARE |-> MAX_CATEGORY_SHARE]
  /\ UNCHANGED <<pwrVars, storeVars, answer, conv, gross, candidates, ia_by_id,
                 ranked_tuples, sel, entry>>

\* gross = coletar_ofertas(...)
CollectFrom(feeds) ==
  /\ pc = "collect"
  /\ \E nodes \in feeds : gross' = DedupById(nodes)
  /\ pc' = "filter"
  /\ UNCHANGED <<pwrVars, storeVars, answer, conv, cfg, candidates, ia_by_id,
                 ranked_tuples, sel, entry, runs>>

Collect == CollectFrom(Feeds)

\* candidates = filter_quality_by_category(gross); if not candidates: return 0
Filter ==
  /\ pc = "filter"
  /\ candidates' = filter_quality_by_category(gross, MIN_RATING)
  /\ pc' = IF candidates' = <<>> THEN "done_empty" ELSE "dedupe"
  /\ UNCHANGED <<pwrVars, storeVars, answer, conv, cfg, gross, ia_by_id,
                 ranked_tuples, sel, entry, runs>>

\* candidates = dedupe_by_signature(candidates, DB_PATH); raises: a query of
\* compute_ev_signal raises, and nothing in main catches it.
Dedupe(raises) ==
  /\ pc = "dedupe"
  /\ IF raises
       THEN pc' = "raised" /\ UNCHANGED candidates
       ELSE pc' = "ia" /\ candidates' = dedupe_by_signature(candidates, conv)
  /\ UNCHANGED <<pwrVars, storeVars, answer, conv, cfg, gross, ia_by_id,
                 ranked_tuples, sel, entry, runs>>

\* The IA stage: prelim scores (heuristic_score reads the store), one
\* analyze_products call, ia_by_id.
Ia(kind, scores, raises) ==
  /\ pc = "ia"
  /\ IF raises
       THEN pc' = "raised" /\ UNCHANGED ia_by_id
       ELSE pc' = "rank" /\ ia_by_id' = IaById(candidates, conv, kind, scores)
  /\ UNCHANGED <<pwrVars, storeVars, answer, conv, cfg, gross, candidates,
                 ranked_tuples, sel, entry, runs>>

\* The final ranking with its relevance gate.  The store is read only for a
\* candidate that passes the gate.
Rank(raises) ==
  /\ pc = "rank"
  /\ raises => \E k \in 1..Len(candidates) : PassesGate(ia_by_id, candidates[k])
  /\ IF raises
       THEN pc' = "raised" /\ UNCHANGED ranked_tuples
       ELSE pc' = "select" /\ ranked_tuples' = RankedTuples(candidates, ia_by_id, conv)
  /\ UNCHANGED <<pwrVars, storeVars, answer, conv, cfg, gross, candidates,
                 ia_by_id, sel, entry, runs>>

\* select_with_caps_and_dedupe, first loop.  raises: db.can_repost raises.
SelectCapped(raises) ==
  /\ pc = "select"
  /\ raises => CallsStore(ranked_tuples, cfg.QTD_POSTS)
  /\ IF raises
       THEN pc' = "raised" /\ UNCHANGED sel
       ELSE /\ pc' = "backfill"
            /\ sel' = CappedLoop(ranked_tuples, cfg.QTD_POSTS, cfg.MAX_CATEGORY_SHARE, posts)
  /\ UNCHANGED <<pwrVars, storeVars, answer, conv, cfg, gross, candidates,
                 ia_by_id, ranked_tuples, entry, runs>>

\* select_with_caps_and_dedupe, second loop and return.
SelectBackfill(raises) ==
  /\ pc = "backfill"
  /\ raises => /\ Len(sel.chosen) < cfg.QTD_POSTS
               /\ CallsStore(ranked_tuples, cfg.QTD_POSTS)
  /\ IF raises
       THEN pc' = "raised" /\ UNCHANGED sel
       ELSE /\ pc' = "publish"
            /\ sel' = BackfillLoop(sel, ranked_tuples, cfg.QTD_POSTS, posts)
  /\ UNCHANGED <<pwrVars, storeVars, answer, conv, cfg, gross, candidates,
                 ia_by_id, ranked_tuples, entry, runs>>

\* publish_pool is built and publish_with_rescue is called.  entry notes the
\* day and the number of post rows at the call (bookkeeping of the model).
StartPublish ==
  /\ pc = "publish"
  /\ pc' = "pass1"
  /\ PwrStart(publish_pool(sel.chosen), cfg.QTD_POSTS, TRUE)
  /\ entry' = [day |-> now, rows |-> Len(posts)]
  /\ UNCHANGED <<storeVars, answer, conv, cfg, gross, candidates, ia_by_id,
                 ranked_tuples, sel, runs>>

\* What main leaves alone while publish_with_rescue runs.
MainFrame == UNCHANGED <<now, answer, conv, mainVars>>

\* record_post after a publish_func call that returned True
Recorded(res, prod) ==
  posts' = IF res = "ok" THEN RecordPost(posts, Pid(prod)) ELSE posts

\* The answers of main's can_repost to one _pick_next scan; faults[k] says
\* whether db.can_repost raises for the entry at position k.
ScanAnswers(faults) ==
  [k \in (idx + 1)..Len(ranked) |-> can_repost(Pid(ranked[k]), faults[k])]

MPass1Publish(faults, outcome) ==
  /\ Pass1Publish(ScanAnswers(faults), PublishFunc(outcome))
  /\ Recorded(PublishFunc(outcome),
              ranked[PickNext(ranked, idx, ScanAnswers(faults)) + 1])
  /\ MainFrame

MPass1End(faults) ==
  /\ Pass1End(ScanAnswers(faults))
  /\ UNCHANGED posts
  /\ MainFrame

\* One evaluation of the head of the backfill loop: an iteration, or the exit.
\* (In a run of main every entry of ranked has been scanned by the first loop
\* when the target is still short, so the exit is what happens.)
MPass2(fault, outcome) ==
  /\ pc = "pass2"
  /\ IF Short /\ i < Len(ranked)
       THEN /\ Pass2Iter(can_repost(Pid(ranked[i + 1]), fault), PublishFunc(outcome))
            /\ IF Eligible(ranked, i + 1, can_repost(Pid(ranked[i + 1]), fault))
                 THEN Recorded(PublishFunc(outcome), ranked[i + 1])
                 ELSE UNCHANGED posts
       ELSE Pass2End /\ UNCHANGED posts
  /\ MainFrame

\* extra = collect_relaxed(); raises: a query of compute_ev_signal raises
\* (the store is read only if an offer passes the relaxed thresholds).
MRescue(raises) ==
  /\ pc = "rescue"
  /\ raises => collect_relaxed(gross, <<>>) # <<>>
  /\ Rescue(collect_relaxed(gross, conv), raises)
  /\ UNCHANGED posts
  /\ MainFrame

MPass3Iter(fault, outcome) ==
  /\ pc = "pass3"
  /\ j < Len(extra)
  /\ Pass3Iter(can_repost(Pid(extra[j + 1]), fault), PublishFunc(outcome))
  /\ IF Eligible(extra, j + 1, can_repost(Pid(extra[j + 1]), fault))
       THEN Recorded(PublishFunc(outcome), extra[j + 1])
       ELSE UNCHANGED posts
  /\ MainFrame

MPass3End ==
  /\ Pass3End
  /\ UNCHANGED posts
  /\ MainFrame

\* An exception left main: "Erro fatal no bot", sys.exit(1).
FatalExit ==
  /\ pc = "raised"
  /\ pc' = "fatal"
  /\ UNCHANGED <<pwrVars, storeVars, answer, conv, mainVars>>

\* The process of a run has ended (its locals are gone) and time passes: the
\* next run starts one day before the cooldown of this run's posts is over, or
\* on the day it is over.
Wait(d) ==
  /\ pc \in BetweenRuns \ {"idle"}
  /\ runs < MaxRuns
  /\ pc' = "idle"
  /\ now' = now + d
  /\ cfg' = NoCfg
  /\ gross' = <<>>
  /\ candidates' = <<>>
  /\ ia_by_id' = <<>>
  /\ ranked_tuples' = <<>>
  /\ sel' = NoSel
  /\ entry' = NoEntry
  /\ PwrStart(<<>>, 0, FALSE)
  /\ UNCHANGED <<posts, answer, conv, runs>>

Next ==
  \/ \E q \in Targets : StartRun(q)
  \/ Collect
  \/ Filter
  \/ \E raises \in BOOLEAN : Dedupe(raises)
  \/ /\ pc = "ia"
     /\ \/ \E kind \in {"raise", "unparsed"}, raises \in BOOLEAN : Ia(kind, <<>>, raises)
        \/ \E scores \in ParsedScores(candidates) : Ia("parsed", scores, FALSE)
  \/ \E raises \in BOOLEAN : Rank(raises)
  \/ \E raises \in BOOLEAN : SelectCapped(raises)
  \/ \E raises \in BOOLEAN : SelectBackfill(raises)
  \/ StartPublish
  \/ \E faults \in Answers(ranked, idx), outcome \in PublishOutcomes :
       MPass1Publish(faults, outcome)
  \/ \E faults \in Answers(ranked, idx) : MPass1End(faults)
  \/ \E fault \in BOOLEAN, outcome \in PublishOutcomes : MPass2(fault, outcome)
  \/ \E raises \in BOOLEAN : MRescue(raises)
  \/ \E fault \in BOOLEAN, outcome \in PublishOutcomes : MPass3Iter(fault, outcome)
  \/ MPass3End
  \/ FatalExit
  \/ \E d \in {COOLDOWN_DIAS - 1, COOLDOWN_DIAS} : Wait(d)

Spec == InitMain /\ [][Next]_vars

\* ------------------------------------------------ SpecRun: one run of main
\* A single run over a wider feed, which can also return an offer that only
\* the relaxed thresholds of collect_relaxed admit (position 5).
RunFeedOffers == {1, 5, 6, 7}

NextRun ==
  \/ \E q \in Targets : StartRun(q)
  \/ CollectFrom(FeedsOf(RunFeedOffers))
  \/ Filter
  \/ \E raises \in BOOLEAN : Dedupe(raises)
  \/ /\ pc = "ia"
     /\ \/ \E kind \in {"raise", "unparsed"}, raises \in BOOLEAN : Ia(kind, <<>>, raises)
        \/ \E scores \in ParsedScores(candidates) : Ia("parsed", scores, FALSE)
  \/ \E raises \in BOOLEAN : Rank(raises)
  \/ \E raises \in BOOLEAN : SelectCapped(raises)
  \/ \E raises \in BOOLEAN : SelectBackfill(raises)
  \/ StartPublish
  \/ \E faults \in Answers(ranked, idx), outcome \in PublishOutcomes :
       MPass1Publish(faults, outcome)
  \/ \E faults \in Answers(ranked, idx) : MPass1End(faults)
  \/ \E fault \in BOOLEAN, outcome \in PublishOutcomes : MPass2(fault, outcome)
  \/ \E raises \in BOOLEAN : MRescue(raises)
  \/ \E fault \in BOOLEAN, outcome \in PublishOutcomes : MPass3Iter(fault, outcome)
  \/ MPass3End
  \/ FatalExit

SpecRun == InitMain /\ [][NextRun]_vars

\* ------------------------------------------------ SpecNames: one run of main
\* A single run over a feed with two offers of one normalized name and
\* different signatures (positions 1 and 2) and an offer of another name.
NameFeedOffers == {1, 2, 3}

NextNames ==
  \/ \E q \in Targets : StartRun(q)
  \/ CollectFrom(FeedsOf(NameFeedOffers))
  \/ Filter
  \/ \E raises \in BOOLEAN : Dedupe(raises)
  \/ /\ pc = "ia"
     /\ \/ \E kind \in {"raise", "unparsed"}, raises \in BOOLEAN : Ia(kind, <<>>, raises)
        \/ \E scores \in ParsedScores(candidates) : Ia("parsed", scores, FALSE)
  \/ \E raises \in BOOLEAN : Rank(raises)
  \/ \E raises \in BOOLEAN : SelectCapped(raises)
  \/ \E raises \in BOOLEAN : SelectBackfill(raises)
  \/ StartPublish
  \/ \E faults \in Answers(ranked, idx), outcome \in PublishOutcomes :
       MPass1Publish(faults, outcome)
  \/ \E faults \in Answers(ranked, idx) : MPass1End(faults)
  \/ \E fault \in BOOLEAN, outcome \in PublishOutcomes : MPass2(fault, outcome)
  \/ \E raises \in BOOLEAN : MRescue(raises)
  \/ \E fault \in BOOLEAN, outcome \in PublishOutcomes : MPass3Iter(fault, outcome)
  \/ MPass3End
  \/ FatalExit

SpecNames == InitMain /\ [][NextNames]_vars

\* ------------------------------------------------ SpecConfig: the environment
\* The variables main requires, in the order it reads them.
REQUIRED_ENV ==
  <<"SHOPEE_PARTNER_ID", "SHOPEE_API_KEY", "GEMINI_API_KEY", "TELEGRAM_BOT_TOKEN",
    "TELEGRAM_CHAT_ID">>

\* The environments of a run: every required variable is unset (or blank) or
\* set, and the partner id is set to digits or to something else.
Environments ==
  {env \in [{REQUIRED_ENV[k] : k \in 1..Len(REQUIRED_ENV)} -> {"", "tok", "123"}] :
     \A k \in 2..Len(REQUIRED_ENV) : env[REQUIRED_ENV[k]] \in {"", "tok"}}

\* getenv_required without its check: the value as it is, blank or not.
getenv_unchecked(env, name) == {env[name]}

\* getenv_required: the value of the variable, or sys.exit (no value) when it
\* is unset or blank.
getenv_required(env, name) == IF env[name] = "" THEN {} ELSE {env[name]}

\* int(PARTNER_ID_STR), which raises for a string that is not a number.
ParseInt(v) == IF v = "123" THEN {123} ELSE {}

\* The head of main: the five required variables, then int(PARTNER_ID_STR).
\* TRUE when main goes on to read its thresholds, FALSE when it left through
\* sys.exit.
ConfigLoaded(env) ==
  /\ \A k \in 1..Len(REQUIRED_ENV) : getenv_required(env, REQUIRED_ENV[k]) # {}
  /\ \A v \in getenv_required(env, "SHOPEE_PARTNER_ID") : ParseInt(v) # {}

\* A new process starts main in an environment: it exits at once, or reads its
\* thresholds and goes on to the collection.
StartMain(env, q) ==
  /\ pc = "idle"
  /\ runs < MaxRuns
  /\ runs' = runs + 1
  /\ IF ConfigLoaded(env)
       THEN /\ pc' = "collect"
            /\ cfg' = [QTD_POSTS |-> q, MAX_CATEGORY_SHARE |-> MAX_CATEGORY_SHARE,
                       env |-> env]
       ELSE /\ pc' = "config_exit"
            /\ cfg' = [QTD_POSTS |-> NoCfg.QTD_POSTS,
                       MAX_CATEGORY_SHARE |-> NoCfg.MAX_CATEGORY_SHARE, env |-> env]
  /\ UNCHANGED <<pwrVars, storeVars, answer, conv, gross, candidates, ia_by_id,
                 ranked_tuples, sel, entry>>

NextConfig ==
  \/ \E env \in Environments, q \in Targets : StartMain(env, q)
  \/ CollectFrom(FeedsOf(RunFeedOffers))
  \/ Filter
  \/ \E raises \in BOOLEAN : Dedupe(raises)
  \/ /\ pc = "ia"
     /\ \/ \E kind \in {"raise", "unparsed"}, raises \in BOOLEAN : Ia(kind, <<>>, raises)
        \/ \E scores \in ParsedScores(candidates) : Ia("parsed", scores, FALSE)
  \/ \E raises \in BOOLEAN : Rank(raises)
  \/ \E raises \in BOOLEAN : SelectCapped(raises)
  \/ \E raises \in BOOLEAN : SelectBackfill(raises)
  \/ StartPublish
  \/ \E faults \in Answers(ranked, idx), outcome \in PublishOutcomes :
       MPass1Publish(faults, outcome)
  \/ \E faults \in Answers(ranked, idx) : MPass1End(faults)
  \/ \E fault \in BOOLEAN, outcome \in PublishOutcomes : MPass2(fault, outcome)
  \/ \E raises \in BOOLEAN : MRescue(raises)
  \/ \E fault \in BOOLEAN, outcome \in PublishOutcomes : MPass3Iter(fault, outcome)
  \/ MPass3End
  \/ FatalExit

SpecConfig == InitMain /\ [][NextConfig]_vars

\* ------------------------------------------------ SpecCollect: coletar_ofertas
\* PAGINAS_A_VERIFICAR (default)
PAGINAS == 2

\* fontes: one keyword and one shop id, in the order coletar_ofertas visits them.
fontes == <<"keyword", "shopId">>

\* BLOCKLIST_TERMS (default), of which the model's names can hold "4k".
BLOCKLIST_TERMS == {"espi", "pmpo", "chatgpt", "4k", "i12"}

\* is_blocked: a blocklist term is a word of the name.
is_blocked(name) == \E k \in 1..Len(name) : name[k] \in BLOCKLIST_TERMS

\* int(p.get("itemId")): the integer a node's itemId stands for, or an
\* exception (no value) for None and for a string that is not a number.
ParseItemId(raw) ==
  IF raw = "0" THEN {0}
  ELSE IF raw = "1" THEN {1}
  ELSE IF raw = "2" THEN {2}
  ELSE IF raw = "3" THEN {3}
  ELSE {}

\* verificar_link_ativo: the HEAD/GET of the product link answers, or the link
\* is missing or dead.
verificar_link_ativo(url) == url = "live"

\* A node as the feed returns it: the offer at a place of the catalog under a
\* raw itemId and a product link.
RawNode(k, raw, url) ==
  [itemId |-> raw, productName |-> Catalog[k].productName,
   ratingStar |-> Catalog[k].ratingStar,
   priceDiscountRate |-> Catalog[k].priceDiscountRate, sales |-> Catalog[k].sales,
   shopName |-> Catalog[k].shopName, productLink |-> url]

\* The pages a request may return: no node, one node, or two.  The nodes are
\* offer 1 as two sources list it (with the discounts of offers 1 and 4), offer
\* 2, offers whose itemId is 0, None and not a number, an offer whose link is
\* dead and an offer with a blocked name.
FeedPages ==
  LET a1 == RawNode(1, "1", "live")
      a1b == [RawNode(1, "1", "live") EXCEPT !.priceDiscountRate = Catalog[4].priceDiscountRate]
      b2 == RawNode(2, "2", "live")
      z0 == RawNode(7, "0", "live")
      none == RawNode(5, "None", "live")
      nan == RawNode(8, "7a", "live")
      dead == RawNode(3, "3", "dead")
      blocked == [RawNode(6, "3", "live") EXCEPT !.productName = <<"Camera", "4k">>]
  IN {<<>>, <<a1>>, <<a1b>>, <<b2>>, <<z0>>, <<none>>, <<nan>>, <<dead>>, <<blocked>>,
      <<none, b2>>, <<a1, a1b>>, <<z0, a1>>}

\* What graphql_product_offer_v2 does for one page of one source: it raises or
\* reports errors (ok is FALSE), or it returns the nodes of a page.
FeedResponses ==
  {[ok |-> FALSE, nodes |-> <<>>]} \cup {[ok |-> TRUE, nodes |-> pg] : pg \in FeedPages}

\* What the feed would answer to every request of a run.
FeedScripts == [{fontes[k] : k \in 1..Len(fontes)} -> [1..PAGINAS -> FeedResponses]]

\* The loop over the nodes of one page: the records appended to ofertas.
AppendNodes(nodes) ==
  LET rec(p) == [itemId |-> CHOOSE n \in ParseItemId(p.itemId) : TRUE,
                 productName |-> p.productName, ratingStar |-> p.ratingStar,
                 priceDiscountRate |-> p.priceDiscountRate, sales |-> p.sales,
                 shopName |-> p.shopName]
      ok(p) == /\ ~is_blocked(p.productName)
               /\ ParseItemId(p.itemId) # {}
               /\ verificar_link_ativo(p.productLink)
      app[k \in 0..Len(nodes)] ==
        IF k = 0 THEN <<>>
        ELSE app[k - 1] \o (IF ok(nodes[k]) THEN <<rec(nodes[k])>> ELSE <<>>)
  IN app[Len(nodes)]

\* A page loop that throws away what a source gave when one of its requests
\* fails.
RECURSIVE PageLoopAllOrNothing(_, _, _)
PageLoopAllOrNothing(feed, fonte, page) ==
  IF page > PAGINAS THEN <<>>
  ELSE IF \E q \in 1..PAGINAS : ~feed[fonte][q].ok THEN <<>>
  ELSE IF feed[fonte][page].nodes = <<>> THEN <<>>
  ELSE AppendNodes(feed[fonte][page].nodes) \o PageLoopAllOrNothing(feed, fonte, page + 1)

\* The loop over the pages of one source from a page on: a request that fails
\* and a page without nodes end it (break).
RECURSIVE PageLoop(_, _, _)
PageLoop(feed, fonte, page) ==
  IF page > PAGINAS THEN <<>>
  ELSE IF ~feed[fonte][page].ok THEN <<>>
  ELSE IF feed[fonte][page].nodes = <<>> THEN <<>>
  ELSE AppendNodes(feed[fonte][page].nodes) \o PageLoop(feed, fonte, page + 1)

\* coletar_ofertas: the loop over the sources, then one record per itemId.
coletar_ofertas(feed) ==
  LET ofertas[k \in 0..Len(fontes)] ==
        IF k = 0 THEN <<>> ELSE ofertas[k - 1] \o PageLoop(feed, fontes[k], 1)
  IN DedupById(ofertas[Len(fontes)])

\* main is about to call coletar_ofertas, and the feed will answer as
\* answer.feed says.
InitCollect ==
  /\ pc = "collect"
  /\ posts = <<>>
  /\ now = 0
  /\ \E feed \in FeedScripts : answer = [feed |-> feed]
  /\ conv = ConvStore
  /\ PwrIdle
  /\ cfg = [QTD_POSTS |-> 1, MAX_CATEGORY_SHARE |-> MAX_CATEGORY_SHARE]
  /\ gross = <<>>
  /\ candidates = <<>>
  /\ ia_by_id = <<>>
  /\ ranked_tuples = <<>>
  /\ sel = NoSel
  /\ entry = NoEntry
  /\ runs = 1

\* gross = coletar_ofertas(...)
Coletar ==
  /\ pc = "collect"
  /\ gross' = coletar_ofertas(answer.feed)
  /\ pc' = "filter"
  /\ UNCHANGED <<pwrVars, storeVars, answer, conv, cfg, candidates, ia_by_id,
                 ranked_tuples, sel, entry, runs>>

NextCollect == Coletar

SpecCollect == InitCollect /\ [][NextCollect]_vars

\* ------------------------------------------------ SpecPublish: publish_func
\* The methods of shopee_monorepo_modules.publisher.TelegramPublisher, the
\* class of main's pub.
TelegramPublisherMethods == {"__init__", "build_message", "send_message"}

\* What the Telegram API would do with a message handed to it.
SinkAnswers == {"ok", "fail", "raise"}

\* A publish_func whose dry run only logs.
publish_func_dry_log_only(prod, dry_run, sink, store_ok) ==
  LET handed == prod.itemId # 0 /\ ~dry_run /\ "send" \in TelegramPublisherMethods
      done == handed /\ sink = "ok" /\ store_ok
  IN [sent |-> IF handed THEN 1 ELSE 0, recorded |-> done,
      result |-> done \/ (prod.itemId # 0 /\ dry_run)]

\* publish_func(prod): sent is the number of messages handed to the sink,
\* recorded says whether db.record_post wrote a row, result is the return
\* value.  An itemId of 0 returns False at once; a dry run logs, records and
\* returns True; otherwise pub.send is looked up on the publisher, and an
\* exception anywhere (AttributeError for a method the class does not have,
\* an exception of the sink or of record_post) is answered with False.
publish_func(prod, dry_run, sink, store_ok) ==
  LET handed == prod.itemId # 0 /\ ~dry_run /\ "send" \in TelegramPublisherMethods
      done == /\ prod.itemId # 0
              /\ dry_run \/ (handed /\ sink = "ok")
              /\ store_ok
  IN [sent |-> IF handed THEN 1 ELSE 0, recorded |-> done, result |-> done]

NoPublish ==
  [item_id |-> 0, dry_run |-> FALSE, sink |-> "ok", store_ok |-> TRUE, rows |-> 0,
   sent |-> 0, result |-> FALSE]

InitPublish ==
  /\ pc = "publish"
  /\ posts = <<>>
  /\ now = 0
  /\ answer = NoPublish
  /\ conv = <<>>
  /\ MainIdle
  /\ PwrIdle

\* One publish_func call, in a dry run or not; answer keeps the offer, the
\* mode, what the sink and the store would do, the number of rows at the call
\* and what the call did.
PublishCall(prod, dry_run, sink, store_ok) ==
  /\ pc = "publish"
  /\ Len(posts) < MaxRecords
  /\ posts' = IF publish_func(prod, dry_run, sink, store_ok).recorded
                THEN RecordPost(posts, prod.itemId) ELSE posts
  /\ answer' = [item_id |-> prod.itemId, dry_run |-> dry_run, sink |-> sink,
                store_ok |-> store_ok, rows |-> Len(posts),
                sent |-> publish_func(prod, dry_run, sink, store_ok).sent,
                result |-> publish_func(prod, dry_run, sink, store_ok).result]
  /\ UNCHANGED <<pc, pwrVars, now, conv, mainVars>>

PTick ==
  /\ pc = "publish"
  /\ Tick
  /\ UNCHANGED <<pc, pwrVars, posts, answer, conv, mainVars>>

NextPublish ==
  \/ \E prod \in UnitProducts, dry_run \in BOOLEAN, sink \in SinkAnswers, store_ok \in BOOLEAN :
       PublishCall(prod, dry_run, sink, store_ok)
  \/ PTick

SpecPublish == InitPublish /\ [][NextPublish]_vars

\* ------------------------------------------------ SpecSelect: the selector
\* The calls of select_with_caps_and_dedupe: the ranking of any candidates of
\* the catalog (every one with a relevance of 90), a target, a category share
\* and a posts table that is empty or holds a post of item 1 made today.
InitSelect ==
  /\ pc = "select"
  /\ now = 0
  /\ posts \in {<<>>, RecordPost(<<>>, 1)}
  /\ answer = NoAnswer
  /\ conv = ConvStore
  /\ PwrIdle
  /\ runs = 1
  /\ gross = <<>>
  /\ entry = NoEntry
  /\ sel = NoSel
  /\ \E S \in SUBSET (1..Len(Catalog)) :
       candidates = SelectSeq(Catalog, LAMBDA p : \E k \in S : Catalog[k] = p)
  /\ ia_by_id = [id \in {candidates[k].itemId : k \in 1..Len(candidates)} |-> 90]
  /\ ranked_tuples = RankedTuples(candidates, ia_by_id, conv)
  /\ \E q \in -1..MaxSelTarget, share \in {MAX_CATEGORY_SHARE, 50} :
       cfg = [QTD_POSTS |-> q, MAX_CATEGORY_SHARE |-> share]

NextSelect ==
  \/ \E raises \in BOOLEAN : SelectCapped(raises)
  \/ \E raises \in BOOLEAN : SelectBackfill(raises)

SpecSelect == InitSelect /\ [][NextSelect]_vars

\* ------------------------------------------------ SpecDedupe: the deduplicator
\* Offers that pass the quality filter, three of them with one signature
\* (mouse category, brand token X7): offer 1 of the catalog, a second listing
\* of it with the same rating, discount and shop (so the same heuristic score)
\* and a third listing with a higher discount; and offer 6 of the catalog.
Listings ==
  {Catalog[1],
   [itemId |-> 2, productName |-> <<"Mouse", "X7">>, ratingStar |-> 48,
    priceDiscountRate |-> 3000, sales |-> 300, shopName |-> "s1"],
   [itemId |-> 3, productName |-> <<"Mouse", "Gamer", "X7">>, ratingStar |-> 48,
    priceDiscountRate |-> 4000, sales |-> 200, shopName |-> "s2"],
   Catalog[6]}

\* The sequences that hold every element of S once.
Orderings(S) ==
  {q \in [1..Cardinality(S) -> S] : \A k, m \in 1..Cardinality(S) : q[k] = q[m] => k = m}

\* The calls of dedupe_by_signature in main: the candidates are what the
\* quality filter left of a feed that returned some of the listings in some
\* order, and the conversions store is empty or holds its one line item.
InitDedupe ==
  /\ pc = "dedupe"
  /\ posts = <<>>
  /\ now = 0
  /\ answer = NoAnswer
  /\ conv \in {<<>>, ConvStore}
  /\ PwrIdle
  /\ cfg = [QTD_POSTS |-> 1, MAX_CATEGORY_SHARE |-> MAX_CATEGORY_SHARE]
  /\ \E S \in SUBSET Listings \ {{}} : gross \in Orderings(S)
  /\ candidates = filter_quality_by_category(gross, MIN_RATING)
  /\ ia_by_id = <<>>
  /\ ranked_tuples = <<>>
  /\ sel = NoSel
  /\ entry = NoEntry
  /\ runs = 1

NextDedupe == \E raises \in BOOLEAN : Dedupe(raises)

SpecDedupe == InitDedupe /\ [][NextDedupe]_vars

\* ------------------------------------------------ SpecRank: IA stage and ranking
\* Offers with five different signatures, as dedupe_by_signature may leave
\* them: offer 1 of the catalog, a listing of another signature with the
\* discount and the shop of offer 1, a listing whose priceDiscountRate the
\* feed gave as 1.5, a listing with the discount and the rating of offer 1 in
\* a shop without conversions, and offer 6 of the catalog.
RankOffers ==
  {Catalog[1],
   [itemId |-> 2, productName |-> <<"Mouse", "X7", "RGB">>, ratingStar |-> 49,
    priceDiscountRate |-> 3000, sales |-> 300, shopName |-> "s1"],
   [itemId |-> 3, productName |-> <<"Teclado", "Redragon", "K2">>, ratingStar |-> 47,
    priceDiscountRate |-> 15000, sales |-> 150, shopName |-> "s2"],
   [itemId |-> 4, productName |-> <<"Caixa", "Som", "JBL">>, ratingStar |-> 48,
    priceDiscountRate |-> 3000, sales |-> 200, shopName |-> "s2"],
   Catalog[6]}

\* main after dedupe_by_signature: the candidates are some of these offers in
\* some order.
InitRank ==
  /\ pc = "ia"
  /\ posts = <<>>
  /\ now = 0
  /\ answer = NoAnswer
  /\ conv = ConvStore
  /\ PwrIdle
  /\ cfg = [QTD_POSTS |-> 1, MAX_CATEGORY_SHARE |-> MAX_CATEGORY_SHARE]
  /\ \E S \in SUBSET RankOffers \ {{}} : candidates \in Orderings(S)
  /\ gross = candidates
  /\ ia_by_id = <<>>
  /\ ranked_tuples = <<>>
  /\ sel = NoSel
  /\ entry = NoEntry
  /\ runs = 1

NextRank ==
  \/ /\ pc = "ia"
     /\ \/ \E kind \in {"raise", "unparsed"}, raises \in BOOLEAN : Ia(kind, <<>>, raises)
        \/ \E scores \in ParsedScores(candidates) : Ia("parsed", scores, FALSE)
  \/ \E raises \in BOOLEAN : Rank(raises)

SpecRank == InitRank /\ [][NextRank]_vars

\* ------------------------------------------------ SpecIa: answers that omit offers
\* The IA stage and the ranking when a parsed answer of analyze_products may
\* leave offers of the batch out: IAResponse validates the shape of the items
\* it holds, not which items they are.
AnsweredScores(cands) ==
  UNION {[S -> IaScores] : S \in SUBSET ({cands[k].itemId : k \in 1..Len(cands)} \ {0})}

NextIa ==
  \/ /\ pc = "ia"
     /\ \/ \E kind \in {"raise", "unparsed"}, raises \in BOOLEAN : Ia(kind, <<>>, raises)
        \/ \E scores \in AnsweredScores(candidates) : Ia("parsed", scores, FALSE)
  \/ \E raises \in BOOLEAN : Rank(raises)

SpecIa == InitRank /\ [][NextIa]_vars

\* ------------------------------------------------ SpecAuth: ShopeeClient
\* modes = ["v2_payload", "v3_path", "v1_min"]
AuthModes == <<"v2_payload", "v3_path", "v1_min">>

\* What SHOPEE_AUTH_MODE can hold.
AuthModeEnv == {"", "v2_payload", "v3_path", "v1_min", "v9"}

\* forced_mode of __init__: the value if it names a mode, else None ({}).
ForcedMode(env) == IF \E k \in 1..Len(AuthModes) : AuthModes[k] = env THEN {env} ELSE {}

\* A mode order that tries the forced mode first and the other modes after it.
CandidateModesForcedFirst(forced, last) ==
  IF forced = {} /\ last = {} THEN AuthModes
  ELSE LET first == CHOOSE m \in forced \cup last : forced # {} => m \in forced
       IN <<first>> \o SelectSeq(AuthModes, LAMBDA m : m # first)

\* The modes one request tries, in order: the forced mode alone; else the
\* three modes with the last successful one moved to the front.
CandidateModes(forced, last) ==
  IF forced # {} THEN [k \in {1} |-> CHOOSE m \in forced : TRUE]
  ELSE IF last = {} THEN AuthModes
  ELSE LET first == CHOOSE m \in last : TRUE
       IN <<first>> \o SelectSeq(AuthModes, LAMBDA m : m # first)

\* What one POST can come to: HTTP 401 or 403, another HTTP error status,
\* a body whose errors name an invalid signature or an invalid authorization
\* header, a body with other errors, or a body without errors.
AuthResponses ==
  {"http_401", "http_403", "http_404", "invalid_signature", "invalid_header",
   "graphql_error", "ok"}

\* The responses after which the loop goes on to the next mode.
Rejections == {"http_401", "http_403", "invalid_signature", "invalid_header"}

\* How _post_graphql_auto ends on a response that is no rejection.
AuthResult(resp) ==
  IF resp = "ok" THEN "data" ELSE IF resp = "graphql_error" THEN "errors" ELSE "HTTPError"

\* answer holds the client (forced_mode, last_auth_mode) and the request it is
\* sending or sent last: last_auth_mode at its start, the modes still to try,
\* the modes tried with their responses, and how it ended.
InitAuth ==
  /\ pc = "client"
  /\ posts = <<>>
  /\ now = 0
  /\ \E env \in AuthModeEnv :
       answer = [forced_mode |-> ForcedMode(env), last_auth_mode |-> {}, requests |-> 0,
                 start_last |-> {}, modes |-> <<>>, tried |-> <<>>, result |-> "none"]
  /\ conv = <<>>
  /\ MainIdle
  /\ PwrIdle

AuthFrame == UNCHANGED <<pwrVars, storeVars, conv, mainVars>>

\* _post_graphql_auto is called: the candidate modes are set up.
StartRequest ==
  /\ pc = "client"
  /\ answer.requests < MaxRequests
  /\ pc' = "post"
  /\ answer' = [answer EXCEPT !.requests = @ + 1,
                              !.start_last = answer.last_auth_mode,
                              !.modes = CandidateModes(answer.forced_mode, answer.last_auth_mode),
                              !.tried = <<>>,
                              !.result = "none"]
  /\ AuthFrame

\* One iteration of `for mode in modes`: the POST signed in the next mode and
\* what the loop does with its response.
TryMode(resp) ==
  /\ pc = "post"
  /\ answer.modes # <<>>
  /\ LET mode == Head(answer.modes)
         log == Append(answer.tried, [mode |-> mode, resp |-> resp])
     IN IF resp \in Rejections
          THEN /\ answer' = [answer EXCEPT !.modes = Tail(@), !.tried = log]
               /\ pc' = "post"
          ELSE /\ answer' = [answer EXCEPT !.modes = Tail(@), !.tried = log,
                                           !.result = AuthResult(resp),
                                           !.last_auth_mode =
                                             IF resp = "ok" THEN {mode} ELSE @]
               /\ pc' = "client"
  /\ AuthFrame

\* The loop ran out of modes: raise RuntimeError.
AllRejected ==
  /\ pc = "post"
  /\ answer.modes = <<>>
  /\ answer' = [answer EXCEPT !.result = "RuntimeError"]
  /\ pc' = "client"
  /\ AuthFrame

NextAuth ==
  \/ StartRequest
  \/ \E resp \in AuthResponses : TryMode(resp)
  \/ AllRejected

SpecAuth == InitAuth /\ [][NextAuth]_vars

\* ------------------------------------------------ SpecSync: conversions_sync
\* upsert_conversion: the row of table conversions with the node's
\* conversion_id gets the node's purchase_time (the model keeps a
\* conversion's purchase_time on its line items, where the queries join it).
\* int(purchaseTime or 0) or None: a purchaseTime of 0 is stored as NULL.
upsert_conversion(store, node) ==
  [k \in 1..Len(store) |->
     IF store[k].conversion_id = node.conversionId
       THEN [store[k] EXCEPT !.purchase_time =
               IF node.purchaseTime = 0 THEN {} ELSE {node.purchaseTime}]
       ELSE store[k]]

\* upsert_orders_items for a node with one order and one item of one model:
\* the line item with the node's key is overwritten, or a new one is inserted.
upsert_orders_items(store, node) ==
  LET item == [conversion_id |-> node.conversionId, item_id |-> node.itemId,
               shop_name |-> node.shopName, cat |-> node.globalCategoryLv1Name,
               item_total_commission |-> node.itemTotalCommission,
               purchase_time |-> IF node.purchaseTime = 0 THEN {} ELSE {node.purchaseTime}]
      hit == {k \in 1..Len(store) :
                store[k].conversion_id = node.conversionId /\ store[k].item_id = node.itemId}
  IN IF hit = {} THEN Append(store, item)
     ELSE [k \in 1..Len(store) |-> IF k \in hit THEN item ELSE store[k]]

\* The nodes the conversion report may return, all of one shop: a purchase
\* with no time, one before the trailing window and one inside it.
ReportNodes ==
  [conversionId : {1, 2}, purchaseTime : {0, 1, window_days + 1},
   itemId : {1, 6}, shopName : {"s1"}, globalCategoryLv1Name : {"", "c1"},
   itemTotalCommission : {30, 90}]

\* The offers compute_ev_signal is asked about: an item id and a shop name,
\* which may be missing.
EvQueries == {1, 6} \X {"", "s1"}

NoEvAnswer == [item_id |-> 0, shop_name |-> "", ev |-> 0]

InitSync ==
  /\ pc = "sync"
  /\ posts = <<>>
  /\ now = window_days + 2
  /\ answer = NoEvAnswer
  /\ conv = <<>>
  /\ PwrIdle
  /\ MainIdle

\* One node of iter_conversion_report is stored.
SyncNode(node) ==
  /\ pc = "sync"
  /\ runs < MaxSyncs
  /\ conv' = upsert_orders_items(upsert_conversion(conv, node), node)
  /\ runs' = runs + 1
  /\ pc' = "sync"
  /\ answer' = NoEvAnswer
  /\ UNCHANGED <<pwrVars, storeVars, cfg, gross, candidates, ia_by_id, ranked_tuples,
                 sel, entry>>

\* compute_ev_signal is called for an offer (by a run of the bot, which reads
\* the store as the sync left it).
EvQuery(item_id, shop_name) ==
  /\ pc = "sync"
  /\ pc' = "answered"
  /\ answer' = [item_id |-> item_id, shop_name |-> shop_name,
                ev |-> compute_ev_signal(conv, item_id, shop_name)]
  /\ UNCHANGED <<pwrVars, storeVars, conv, mainVars>>

NextSync ==
  \/ \E node \in ReportNodes : SyncNode(node)
  \/ \E q \in EvQueries : EvQuery(q[1], q[2])

SpecSync == InitSync /\ [][NextSync]_vars

\* ------------------------------------------------ claims on SpecRescue
\* Number of calls of the log that returned success.
OkCalls == Cardinality({k \in 1..Len(calls) : calls[k].res = "ok"})

\* C1 (as stated): in every state of publish_with_rescue, the returned state
\* included, posted <= max_posts, for every max_posts, negative ones included.
C1_PostedAtMostTarget == posted <= max_posts

\* C1 (amended): in every state of publish_with_rescue, the returned state
\* included, posted <= max(0, max_posts): the running count never exceeds a
\* target that is >= 0, and it stays 0 when the target is negative.
C1_PostedAtMostNonNegTarget == posted <= Max2(0, max_posts)

\* C1 witness: a call that returned with the target of 2 reached in the rescue
\* step while entries of the relaxed pool were still unread.
C1_Witness ==
  /\ pc = "done"
  /\ max_posts = 2
  /\ posted = max_posts
  /\ j < Len(extra)
  /\ \E k \in 1..Len(calls) : calls[k].step = 3 /\ calls[k].res = "ok"

\* C2: in every state of publish_with_rescue tried >= posted; tried is the
\* number of publish_func calls made and posted the number of those calls that
\* returned success.
C2_TriedCountsCalls ==
  /\ tried >= posted
  /\ tried = Len(calls)
  /\ posted = OkCalls

\* C2 witness: a returned call with a failed attempt and a successful one.
C2_Witness ==
  /\ pc = "done"
  /\ posted >= 1
  /\ tried > posted

\* The step that calls collect_relaxed: it leaves the control point "rescue".
CollectRelaxedCalled == pc = "rescue" /\ pc' # "rescue"

\* The offer a publish_func call of this step was made for.
LastCall == calls'[Len(calls')]

\* C33: collect_relaxed is called at most once in a call of
\* publish_with_rescue, only after the loops over the ranked pool have ended
\* with posted < max_posts, never with the target reached; every publish
\* attempt before the call is on an entry of the ranked pool, every attempt
\* after it is on the entry of the relaxed pool the third loop stands at, and
\* the relaxed pool is assigned by that call alone.
C33_RelaxedCollectedOnceWhenShort ==
  [][/\ CollectRelaxedCalled =>
          /\ posted < max_posts
          /\ has_relaxed
          /\ extra = <<>>
          /\ \A k \in 1..Len(calls) : calls[k].step \in {1, 2}
     /\ pc \in {"pass3", "done", "raised"} => pc' # "rescue"
     /\ extra' # extra => CollectRelaxedCalled /\ pc' = "pass3"
     /\ calls' # calls =>
          IF pc = "pass3"
            THEN /\ LastCall.step = 3
                 /\ LastCall.pid = Pid(extra[j + 1])
            ELSE /\ pc \in {"pass1", "pass2"}
                 /\ LastCall.step \in {1, 2}
                 /\ \E k \in 1..Len(ranked) : LastCall.pid = Pid(ranked[k])]_vars

\* A call that attempted a ranked offer, stayed short, collected the relaxed
\* pool and attempted one of its offers.
C33_Witness ==
  /\ pc \in {"pass3", "done"}
  /\ \E k \in 1..Len(calls) : calls[k].step = 1
  /\ \E k \in 1..Len(calls) : calls[k].step = 3

\* C35: within one call of publish_with_rescue publish_func is called at most
\* once for each identifier, over the three steps together, however often the
\* identifier occurs in the pools and whatever the first call returned.
C35_EachIdAttemptedOnce ==
  \A a, b \in 1..Len(calls) : a # b => calls[a].pid # calls[b].pid

\* A finished call that stayed short, so that every entry of both pools was
\* scanned, whose first attempt failed on an identifier that occurs twice in
\* the ranked pool and again in the relaxed pool.
C35_Witness ==
  /\ pc = "done"
  /\ posted < max_posts
  /\ Len(calls) > 0
  /\ calls[1].res = "fail"
  /\ Cardinality({k \in 1..Len(ranked) : Pid(ranked[k]) = calls[1].pid}) >= 2
  /\ \E k \in 1..Len(extra) : Pid(extra[k]) = calls[1].pid

\* ------------------------------------------------ claims on SpecSteady
\* C36: while no answer of can_repost turns from False to True during the
\* call, step 2 makes no publish attempt: every attempt on an entry of the
\* ranked pool is made in step 1, and a step of the backfill loop leaves
\* posted, tried and the log of publish_func calls as they were.
C36_BackfillAttemptsNothing ==
  [][/\ pc = "pass2" => posted' = posted /\ tried' = tried /\ calls' = calls
     /\ \A k \in 1..Len(calls') : calls'[k].step # 2]_vars

\* The backfill loop has gone over an entry of the ranking that step 1 did not
\* attempt (its identifier is not in seen), with the target still not reached
\* and after step 1 attempted another entry.
C36_Witness ==
  /\ pc = "pass2"
  /\ posted < max_posts
  /\ i > idx
  /\ Pid(ranked[i]) # 0
  /\ Pid(ranked[i]) \notin seen
  /\ Len(calls) > 0

\* ------------------------------------------------ claims on SpecStorage
\* Ages (in days, at the call) of the Post Records the answered call could see.
AnswerAges ==
  {answer.at - posts[k].posted_at : k \in PostsOf(SubSeq(posts, 1, answer.rows), answer.item_id)}

\* C5 (as stated): can_repost returns true exactly when the offer has no Post
\* Record or its most recent Post Record is older than cooldownDays (its age
\* exceeds cooldownDays).
C5_TrueIffOlderThanCooldown ==
  answer.result <=> (AnswerAges = {} \/ \A a \in AnswerAges : a > answer.cooldown_days)

\* C5 (amended): can_repost returns true exactly when the offer has no Post
\* Record or its most recent Post Record is at least cooldownDays old; only the
\* most recent record decides (the smallest age); a last post 3 days old with
\* cooldownDays = 5 gives false and one 9 days old gives true.
C5_TrueIffAtLeastCooldownOld ==
  /\ answer.result <=> (AnswerAges = {} \/ \A a \in AnswerAges : a >= answer.cooldown_days)
  /\ (answer.cooldown_days = 5 /\ AnswerAges # {} /\ Min(AnswerAges) = 3) => ~answer.result
  /\ (answer.cooldown_days = 5 /\ AnswerAges # {} /\ Min(AnswerAges) = 9) => answer.result

\* C5 witness: cooldownDays = 5, two Post Records of the offer, the older one
\* out of cooldown and the most recent one 3 days old: false.
C5_Witness ==
  /\ answer.cooldown_days = 5
  /\ Cardinality(AnswerAges) = 2
  /\ Min(AnswerAges) = 3
  /\ \E a \in AnswerAges : a >= 5
  /\ ~answer.result

\* ------------------------------------------------ claims on SpecSelect
CatA == "mouse/teclado/perifericos"

CatB == "caixa de som/speaker"

AllCats == {CATS[c].cat : c \in 1..Len(CATS)} \cup {"outros"}

CatOfTuple(t) == tag_categoria(t.prod.productName)

CatCountIn(chosen, c) == Cardinality({k \in 1..Len(chosen) : CatOfTuple(chosen[k]) = c})

\* max(1, floor(targetCount * maxCategoryShare))
SelCap == Max2(1, (cfg.QTD_POSTS * cfg.MAX_CATEGORY_SHARE) \div 100)

TupleIds(q) == [k \in 1..Len(q) |-> q[k].prod.itemId]

\* targetCount = 3, maxCategoryShare = 0.5, ranked categories [A, A, A, B, B],
\* no offer in cooldown
Scenario6 ==
  /\ cfg.QTD_POSTS = 3
  /\ cfg.MAX_CATEGORY_SHARE = 50
  /\ posts = <<>>
  /\ [k \in 1..Len(ranked_tuples) |-> CatOfTuple(ranked_tuples[k])]
       = <<CatA, CatA, CatA, CatB, CatB>>
  /\ \A k \in 1..Len(ranked_tuples) : ranked_tuples[k].prod.itemId # 0

PoolIds ==
  ({Pid(ranked[k]) : k \in 1..Len(ranked)} \cup {Pid(extra[k]) : k \in 1..Len(extra)}) \ {0}

\* The offer passed the cooldown check when publish_with_rescue was called.
CooledAtEntry(id) ==
  \A r \in 1..entry.rows :
    posts[r].item_id = id => entry.day - posts[r].posted_at >= COOLDOWN_DIAS

FailedIds == {calls[k].pid : k \in {m \in 1..Len(calls) : calls[m].res # "ok"}}

\* Offers of the pools that pass the cooldown check and whose publish call
\* did not fail.
Publishable == {id \in PoolIds : CooledAtEntry(id) /\ id \notin FailedIds}

RowOfCall(k) == entry.rows + Cardinality({m \in 1..k : calls[m].res = "ok"})

\* C4: a Post Record written by the strict or the cap-relaxed pass is at least
\* cooldownDays later than every earlier Post Record of the same offer.
C4_StrictPassesKeepCooldown ==
  \A k \in 1..Len(calls) :
    (calls[k].res = "ok" /\ calls[k].step \in {1, 2}) =>
      \A r \in 1..(RowOfCall(k) - 1) :
        posts[r].item_id = calls[k].pid =>
          posts[RowOfCall(k)].posted_at - posts[r].posted_at >= COOLDOWN_DIAS

C4_Witness ==
  \E k \in 1..Len(calls) :
    /\ calls[k].res = "ok"
    /\ calls[k].step = 1
    /\ \E r \in 1..entry.rows :
         /\ posts[r].item_id = calls[k].pid
         /\ posts[RowOfCall(k)].posted_at - posts[r].posted_at = COOLDOWN_DIAS

\* C7 (as stated): no publish call of a run succeeds for an offer whose
\* relevance score is below the minimum.
C7_NoLowRelevancePublished ==
  \A k \in 1..Len(calls) :
    (calls[k].res = "ok" /\ calls[k].pid \in DOMAIN ia_by_id) =>
      ia_by_id[calls[k].pid] >= MIN_IA_SCORE

\* C8: every offer of the ranked pool has a relevance score, and it is not
\* below the minimum.
C8_RankedPoolGated ==
  \A k \in 1..Len(ranked_tuples) :
    /\ ranked_tuples[k].prod.itemId \in DOMAIN ia_by_id
    /\ ia_by_id[ranked_tuples[k].prod.itemId] >= MIN_IA_SCORE

C8_Witness ==
  /\ pc = "select"
  /\ ranked_tuples # <<>>
  /\ \E k \in 1..Len(candidates) :
       /\ candidates[k].priceDiscountRate = Scale
       /\ compute_ev_signal(conv, candidates[k].itemId, candidates[k].shopName) > Scale \div 2
       /\ candidates[k].itemId \in DOMAIN ia_by_id
       /\ ia_by_id[candidates[k].itemId] < MIN_IA_SCORE
       /\ \A m \in 1..Len(ranked_tuples) : ranked_tuples[m].prod # candidates[k]

\* C9: a publish call that fails leaves publishedCount and the posts table as
\* they are, counts as an attempt, and the loop it was made in goes on with
\* its next entry.
C9_FailedPublishGoesOn ==
  [][(Len(calls') = Len(calls) + 1 /\ calls'[Len(calls')].res # "ok") =>
       /\ pc' = pc
       /\ pc' \in {"pass1", "pass2", "pass3"}
       /\ posted' = posted
       /\ posts' = posts
       /\ tried' = tried + 1
       /\ idx' + i' + j' > idx + i + j]_vars

C9_Witness ==
  /\ pc = "done"
  /\ \E k \in 1..Len(calls) : \E m \in (k + 1)..Len(calls) :
       /\ calls[k].res = "fail"
       /\ calls[m].res = "ok"
       /\ calls[m].step = calls[k].step
  /\ posted = 1
  /\ tried = 2

\* C10 (as stated): no run ends with a fatal error.
C10_NeverFatal == pc # "fatal"

\* ------------------------------------------------ claims on the escalation
\* The offers of the full ranking that are not in the pool handed to
\* publish_with_rescue, have an id, pass the cooldown check and have a
\* normalized name no offer of the pool has.
RankedOutsidePool ==
  {ranked_tuples[k].prod : k \in
     {k \in 1..Len(ranked_tuples) :
        /\ ranked_tuples[k].prod.itemId # 0
        /\ StorageCanRepost(posts, ranked_tuples[k].prod.itemId, COOLDOWN_DIAS)
        /\ \A m \in 1..Len(ranked) :
             /\ ranked[m] # ranked_tuples[k].prod
             /\ norm_name(ranked[m].productName) # norm_name(ranked_tuples[k].prod.productName)}}

\* C11 (as stated): when the strict passes end short of the target, every
\* offer of the full ranking outside the shortlist that passes the cooldown
\* check and the duplicate-name guard has been attempted before
\* collect_relaxed is called.
C11_RankedPoolTriedBeforeRescue ==
  (pc = "rescue" /\ Short) =>
    \A p \in RankedOutsidePool : \E k \in 1..Len(calls) : calls[k].pid = p.itemId

\* C12 (as stated, for a relaxation factor of 60%): the rescue pass takes an
\* offer as eligible once its last post is 60% of COOLDOWN_DIAS old, so a run
\* that ends short has attempted every offer of the relaxed pool that has an
\* id and was never posted or was last posted that long ago.
C12_RescueUsesRelaxedCooldown ==
  (pc = "done" /\ Short /\ has_relaxed) =>
    \A k \in 1..Len(extra) :
      (/\ extra[k].itemId # 0
       /\ \A t \in LastPostedAt(posts, extra[k].itemId) :
            (now - t) * 100 >= 60 * COOLDOWN_DIAS)
        => extra[k].itemId \in seen

\* The offers that had a post row when publish_with_rescue was called.
PostedBeforeRun(id) == \E r \in 1..entry.rows : posts[r].item_id = id

\* The day of the last post of an offer before this run.
LastPostBeforeRun(id) ==
  LastPostedAt(SubSeq(posts, 1, entry.rows), id)

\* C13 (as stated): the rescue pass attempts never-posted offers before
\* previously posted ones, and previously posted ones oldest post first.
C13_RescuePriorityOrder ==
  \A k \in 1..Len(calls) : \A m \in (k + 1)..Len(calls) :
    (calls[k].step = 3 /\ calls[m].step = 3 /\ PostedBeforeRun(calls[k].pid)) =>
      /\ PostedBeforeRun(calls[m].pid)
      /\ \A a \in LastPostBeforeRun(calls[k].pid), b \in LastPostBeforeRun(calls[m].pid) :
           a <= b

\* The publish calls of the rescue pass that succeeded for an offer posted
\* before this run.
RescueReposts ==
  {k \in 1..Len(calls) :
     calls[k].step = 3 /\ calls[k].res = "ok" /\ PostedBeforeRun(calls[k].pid)}

\* C14 (as stated, for a configured maximum of one rescue repost): the rescue
\* pass of one run republishes at most that many previously posted offers.
C14_RescueRepostsCapped == Cardinality(RescueReposts) <= 1

\* ------------------------------------------------ claims on SpecRun
\* C15 (as stated): a run that ends with fewer posts than the target has
\* attempted every offer that relaxed re-collection yields from its feed, has
\* an id and passes the cooldown check, also when the quality filter left no
\* candidate.
C15_ShortRunWentThroughRescue ==
  (pc \in {"done", "done_empty"} /\ posted < cfg.QTD_POSTS) =>
    \A k \in 1..Len(collect_relaxed(gross, conv)) :
      LET p == collect_relaxed(gross, conv)[k]
      IN (p.itemId # 0 /\ StorageCanRepost(posts, p.itemId, COOLDOWN_DIAS))
           => p.itemId \in seen

\* ------------------------------------------------ claims on SpecRescueFair
\* C16: every call of publish_with_rescue ends, by its return or by an
\* exception of a callback, and it never makes more publish attempts than the
\* ranked pool and the relaxed pool have entries.
C16_ReturnsWithinAttempts ==
  /\ [](tried <= Len(ranked) + Len(extra))
  /\ <>(pc \in {"done", "raised"})

\* A call that returned short of its target after attempting every entry of
\* both pools.
C16_Witness ==
  /\ pc = "done"
  /\ posted < max_posts
  /\ Len(ranked) > 0
  /\ Len(extra) > 0
  /\ tried = Len(ranked) + Len(extra)

\* ------------------------------------------------ claims on the shortlist
\* The normalized name of the k-th offer of the shortlist.
ChosenNorm(k) == norm_name(sel.chosen[k].prod.productName)

\* Could the selector accept this tuple of the ranking now: it has an id,
\* passes the cooldown check and its normalized name is not in the shortlist.
Acceptable(t) ==
  /\ t.prod.itemId # 0
  /\ SelCanRepost(posts, t.prod.itemId)
  /\ \A k \in 1..Len(sel.chosen) : ChosenNorm(k) # norm_name(t.prod.productName)

\* C17: no two offers of the selector's shortlist, after either loop, have the
\* same normalized name.
C17_ShortlistNamesDistinct ==
  \A k \in 1..Len(sel.chosen) : \A m \in (k + 1)..Len(sel.chosen) :
    ChosenNorm(k) # ChosenNorm(m)

\* The selector returned short of its target although the ranking held a
\* second, cooled offer with the normalized name of a shortlisted one.
C17_Witness ==
  /\ pc = "publish"
  /\ 0 < Len(sel.chosen)
  /\ Len(sel.chosen) < cfg.QTD_POSTS
  /\ \E k \in 1..Len(ranked_tuples) :
       /\ ranked_tuples[k].prod.itemId # 0
       /\ SelCanRepost(posts, ranked_tuples[k].prod.itemId)
       /\ \A m \in 1..Len(sel.chosen) : sel.chosen[m] # ranked_tuples[k]
       /\ \E m \in 1..Len(sel.chosen) :
            ChosenNorm(m) = norm_name(ranked_tuples[k].prod.productName)

\* The position in the ranking of the last tuple the selector took.
LastChosenAt ==
  Max2(0, CHOOSE n \in 0..Len(ranked_tuples) :
            /\ \A k \in 1..Len(sel.chosen) : \E m \in 1..n : ranked_tuples[m] = sel.chosen[k]
            /\ n > 0 => \E k \in 1..Len(sel.chosen) : ranked_tuples[n] = sel.chosen[k])

\* The selector's result so far on the ranking cut after position n.
SelectedFrom(n) ==
  LET head == SubSeq(ranked_tuples, 1, n)
      first == CappedLoop(head, cfg.QTD_POSTS, cfg.MAX_CATEGORY_SHARE, posts)
  IN IF pc = "backfill" THEN first
     ELSE BackfillLoop(first, head, cfg.QTD_POSTS, posts)

\* C18 (as stated): the shortlist never holds more offers than the target.
C18_AtMostTarget ==
  pc \in {"backfill", "publish"} => Len(sel.chosen) <= cfg.QTD_POSTS

\* C18 (amended): the shortlist never holds more than max(0, target) offers;
\* once it holds the target the rest of the ranking plays no part in it; and
\* the selector returns short of the target only if no tuple of the ranking
\* is left that it could accept.
C18_AtMostNonNegTarget ==
  pc \in {"backfill", "publish"} =>
    /\ Len(sel.chosen) <= Max2(0, cfg.QTD_POSTS)
    /\ Len(sel.chosen) >= cfg.QTD_POSTS => sel = SelectedFrom(LastChosenAt)
    /\ (pc = "publish" /\ Len(sel.chosen) < cfg.QTD_POSTS) =>
         \A k \in 1..Len(ranked_tuples) : ~Acceptable(ranked_tuples[k])

\* The selector returned a full shortlist of two or more and left a tuple of
\* the ranking that it could have accepted.
C18_Witness ==
  /\ pc = "publish"
  /\ cfg.QTD_POSTS >= 2
  /\ Len(sel.chosen) = cfg.QTD_POSTS
  /\ \E k \in (LastChosenAt + 1)..Len(ranked_tuples) : Acceptable(ranked_tuples[k])

\* The place in the ranking of the k-th tuple of the shortlist.
ChosenAt(k) == CHOOSE n \in 1..Len(ranked_tuples) : ranked_tuples[n] = sel.chosen[k]

\* The tuples of the shortlist from place a to place b are in ranking order.
InRankingOrder(a, b) ==
  \A k \in a..b : \A m \in (k + 1)..b : ChosenAt(k) < ChosenAt(m)

SigOf(p) == make_signature_key(p.productName)

PreScore(p) == heuristic_score(conv, p)

Range(q) == {q[k] : k \in 1..Len(q)}

\* C19: after deduplication no two candidates share a feature signature, every
\* candidate is an offer of the input, and every signature of the input has a
\* survivor whose pre-score no input offer of that signature exceeds.
C19_OnePerSignatureBestScore ==
  pc = "ia" =>
    /\ \A k \in 1..Len(candidates) : \A m \in (k + 1)..Len(candidates) :
         SigOf(candidates[k]) # SigOf(candidates[m])
    /\ Range(candidates) \subseteq Range(gross)
    /\ \A p \in Range(gross) : \E c \in Range(candidates) :
         /\ SigOf(c) = SigOf(p)
         /\ \A r \in Range(gross) : SigOf(r) = SigOf(p) => PreScore(r) <= PreScore(c)

\* The first offer of the input was dropped for a later one of its signature
\* with a higher pre-score.
C19_Witness ==
  /\ pc = "ia"
  /\ gross[1] \notin Range(candidates)
  /\ \E c \in Range(candidates) :
       SigOf(c) = SigOf(gross[1]) /\ PreScore(c) > PreScore(gross[1])

\* Does the input hold two offers of one signature that tie for its highest
\* pre-score?
TieAtTop(q) ==
  \E a, b \in Range(q) :
    /\ a # b
    /\ SigOf(a) = SigOf(b)
    /\ PreScore(a) = PreScore(b)
    /\ \A r \in Range(q) : SigOf(r) = SigOf(a) => PreScore(r) <= PreScore(a)

\* C20 (as stated): deduplicating any reordering of the input keeps the same
\* offers.
C20_OrderIndependent ==
  pc = "ia" =>
    \A q \in Orderings(Range(gross)) :
      Range(dedupe_by_signature(q, conv)) = Range(candidates)

\* C20 (amended): deduplicating any reordering of the input keeps the same
\* signatures with the same pre-scores, and the same offers unless two offers
\* of a signature tie for its highest pre-score; of offers that tie, the one
\* that comes first in the input is kept.
C20_OrderIndependentUpToTies ==
  pc = "ia" =>
    /\ \A q \in Orderings(Range(gross)) :
         /\ {<<SigOf(c), PreScore(c)>> : c \in Range(dedupe_by_signature(q, conv))}
              = {<<SigOf(c), PreScore(c)>> : c \in Range(candidates)}
         /\ ~TieAtTop(gross) => Range(dedupe_by_signature(q, conv)) = Range(candidates)
    /\ \A k \in 1..Len(gross) : \A m \in (k + 1)..Len(gross) :
         (SigOf(gross[k]) = SigOf(gross[m]) /\ PreScore(gross[k]) = PreScore(gross[m]))
           => gross[m] \notin Range(candidates)

\* An input of three or more offers with a tie at the top of a signature,
\* one of the tied offers kept and the other dropped.
C20_Witness ==
  /\ pc = "ia"
  /\ Len(gross) >= 3
  /\ TieAtTop(gross)
  /\ \E a \in Range(candidates), b \in Range(gross) \ Range(candidates) :
       SigOf(a) = SigOf(b) /\ PreScore(a) = PreScore(b)

\* ------------------------------------------------ claims on Spec (store)
\* C28: a step of a run leaves table posts as it is or adds exactly one row
\* after the rows it had, which stay as they were; the new row holds the item
\* of the publish_func call of that step and the current time.
C28_PostRecordsAppendOnly ==
  [][\/ posts' = posts
     \/ /\ Len(posts') = Len(posts) + 1
        /\ SubSeq(posts', 1, Len(posts)) = posts
        /\ Len(calls') = Len(calls) + 1
        /\ posts'[Len(posts')] = [item_id |-> calls'[Len(calls')].pid, posted_at |-> now]]_vars

\* An item was posted in two runs, and table posts holds both records.
C28_Witness ==
  /\ Len(posts) = 2
  /\ posts[1].item_id = posts[2].item_id
  /\ posts[1].posted_at < posts[2].posted_at

C21_RankingTotalById ==
  pc = "select" =>
    /\ \A k \in 1..Len(ranked_tuples) : \A m \in (k + 1)..Len(ranked_tuples) :
         \/ ranked_tuples[k].final > ranked_tuples[m].final
         \/ /\ ranked_tuples[k].final = ranked_tuples[m].final
            /\ ranked_tuples[k].prod.itemId < ranked_tuples[m].prod.itemId
    /\ \A q \in Orderings(Range(candidates)) :
         RankedTuples(q, ia_by_id, conv) = ranked_tuples

\* C22 (as stated): the final score of every ranked offer is
\* 0.45 * relevance / 100 + 0.25 * clamp(discount, 0, 1) + 0.30 * ev.
C22_FinalScoreClampsDiscount ==
  \A k \in 1..Len(ranked_tuples) :
    ranked_tuples[k].final =
      4500 * ranked_tuples[k].ia
        + 25 * Clamp(ranked_tuples[k].prod.priceDiscountRate, 0, Scale)
        + 30 * compute_ev_signal(conv, ranked_tuples[k].prod.itemId,
                                 ranked_tuples[k].prod.shopName)

\* C24 (as stated): when analyze_products raises for the batch, every
\* candidate gets a relevance in 0..100 that is the same for candidates of the
\* same discount and rating, and main goes on to the ranking.
C24_FallbackFromDiscountAndRating ==
  [][Ia("raise", <<>>, FALSE) =>
       /\ pc' = "rank"
       /\ \A k \in 1..Len(candidates) :
            /\ candidates[k].itemId \in DOMAIN ia_by_id'
            /\ ia_by_id'[candidates[k].itemId] \in 0..100
            /\ \A m \in 1..Len(candidates) :
                 (/\ candidates[m].priceDiscountRate = candidates[k].priceDiscountRate
                  /\ candidates[m].ratingStar = candidates[k].ratingStar)
                   => ia_by_id'[candidates[m].itemId] = ia_by_id'[candidates[k].itemId]]_vars

\* C24 (amended): when analyze_products raises for the batch, every candidate
\* gets a relevance in 55..82 that is the same for candidates of the same
\* discount, rating and EV signal, and main goes on to the ranking.
C24_FallbackFromPreScore ==
  [][Ia("raise", <<>>, FALSE) =>
       /\ pc' = "rank"
       /\ \A k \in 1..Len(candidates) :
            /\ candidates[k].itemId \in DOMAIN ia_by_id'
            /\ ia_by_id'[candidates[k].itemId] \in 55..82
            /\ \A m \in 1..Len(candidates) :
                 (/\ candidates[m].priceDiscountRate = candidates[k].priceDiscountRate
                  /\ candidates[m].ratingStar = candidates[k].ratingStar
                  /\ compute_ev_signal(conv, candidates[m].itemId, candidates[m].shopName)
                       = compute_ev_signal(conv, candidates[k].itemId, candidates[k].shopName))
                   => ia_by_id'[candidates[m].itemId] = ia_by_id'[candidates[k].itemId]]_vars

\* main is at the ranking with the fallback relevance of every candidate, two
\* of which have the same discount and rating and different relevances.
C24_Witness ==
  /\ pc = "rank"
  /\ DOMAIN ia_by_id = {candidates[k].itemId : k \in 1..Len(candidates)}
  /\ \A k \in 1..Len(candidates) :
       ia_by_id[candidates[k].itemId] = FallbackScore(conv, candidates[k])
  /\ \E k, m \in 1..Len(candidates) :
       /\ candidates[m].priceDiscountRate = candidates[k].priceDiscountRate
       /\ candidates[m].ratingStar = candidates[k].ratingStar
       /\ ia_by_id[candidates[m].itemId] # ia_by_id[candidates[k].itemId]

\* ------------------------------------------------ claims on SpecSync
\* The line items of the store that count for an offer: those of its item, of
\* its shop or of its item's top category whose purchase is inside the
\* trailing window or has no time.
HistoryOf(item_id, shop_name) ==
  {k \in 1..Len(conv) :
     /\ \/ conv[k].item_id = item_id
        \/ (shop_name # "" /\ conv[k].shop_name = shop_name)
        \/ conv[k].cat \in TopCategory(conv, item_id)
     /\ \A t \in conv[k].purchase_time : t >= now - window_days}

\* C23 (as stated): the EV signal is in [0, 1], it is 0 for an offer whose item
\* has no line item in the store, its shop term is 0 without a shop name, and
\* a sync that lowers none of the three sums of an offer does not lower its
\* signal.
C23_EvBoundedZeroMonotone ==
  /\ [](pc = "answered" =>
          /\ answer.ev >= 0 /\ answer.ev <= Scale
          /\ (\A k \in 1..Len(conv) : conv[k].item_id # answer.item_id) => answer.ev = 0
          /\ answer.shop_name = "" =>
               answer.ev = (6 * _sigmoid_like(item_ev(conv, answer.item_id), 30)
                              + _sigmoid_like(cat_ev(conv, answer.item_id), 150)) \div 10)
  /\ [][conv' # conv => \A q \in EvQueries :
          (/\ item_ev(conv', q[1]) >= item_ev(conv, q[1])
           /\ shop_ev(conv', q[2]) >= shop_ev(conv, q[2])
           /\ cat_ev(conv', q[1]) >= cat_ev(conv, q[1]))
            => compute_ev_signal(conv', q[1], q[2]) >= compute_ev_signal(conv, q[1], q[2])]_vars

\* C23 (amended): the EV signal is in [0, 1], it is 0 for an offer when no line
\* item of its item, of its shop or of its item's top category counts, its
\* shop term is 0 without a shop name, and a sync that lowers none of the
\* three sums of an offer does not lower its signal.
C23_EvBoundedZeroWithoutHistoryMonotone ==
  /\ [](pc = "answered" =>
          /\ answer.ev >= 0 /\ answer.ev <= Scale
          /\ HistoryOf(answer.item_id, answer.shop_name) = {} => answer.ev = 0
          /\ answer.shop_name = "" =>
               answer.ev = (6 * _sigmoid_like(item_ev(conv, answer.item_id), 30)
                              + _sigmoid_like(cat_ev(conv, answer.item_id), 150)) \div 10)
  /\ [][conv' # conv => \A q \in EvQueries :
          (/\ item_ev(conv', q[1]) >= item_ev(conv, q[1])
           /\ shop_ev(conv', q[2]) >= shop_ev(conv, q[2])
           /\ cat_ev(conv', q[1]) >= cat_ev(conv, q[1]))
            => compute_ev_signal(conv', q[1], q[2]) >= compute_ev_signal(conv, q[1], q[2])]_vars

\* The signal of an offer with a shop name, asked after two syncs that gave
\* its item, its shop and its category a sum above zero.
C23_Witness ==
  /\ pc = "answered"
  /\ Len(conv) = 2
  /\ answer.shop_name # ""
  /\ item_ev(conv, answer.item_id) > 0
  /\ shop_ev(conv, answer.shop_name) > item_ev(conv, answer.item_id)
  /\ cat_ev(conv, answer.item_id) > 0
  /\ answer.ev > Scale \div 2

C25_ConfigErrorBeforeCollection ==
  (runs > 0 /\ (\/ \E k \in 1..Len(REQUIRED_ENV) : cfg.env[REQUIRED_ENV[k]] = ""
                \/ cfg.env["SHOPEE_PARTNER_ID"] # "123"))
    => /\ pc = "config_exit"
       /\ gross = <<>>
       /\ posts = <<>>
       /\ calls = <<>>
       /\ tried = 0

\* A run that found its partner id and missed the API key.
C25_Witness ==
  /\ pc = "config_exit"
  /\ cfg.env["SHOPEE_PARTNER_ID"] = "123"
  /\ cfg.env["SHOPEE_API_KEY"] = ""
  /\ cfg.env["TELEGRAM_CHAT_ID"] # ""

\* ------------------------------------------------ claims on SpecCollect
\* The requests of the run that returned a page with nodes, no earlier request
\* of the same source having failed or come back empty: <<source, page>>.
FetchedPages ==
  {fp \in (1..Len(fontes)) \X (1..PAGINAS) :
     \A q \in 1..fp[2] : /\ answer.feed[fontes[fp[1]]][q].ok
                         /\ answer.feed[fontes[fp[1]]][q].nodes # <<>>}

NodeAt(t) == answer.feed[fontes[t[1]]][t[2]].nodes[t[3]]

\* The nodes of the fetched pages that are offers with an identifier: not
\* blocked, an integer itemId, a live link.  <<source, page, place>>.
TakenNodes ==
  {t \in (1..Len(fontes)) \X (1..PAGINAS) \X (1..2) :
     /\ <<t[1], t[2]>> \in FetchedPages
     /\ t[3] <= Len(answer.feed[fontes[t[1]]][t[2]].nodes)
     /\ ~is_blocked(NodeAt(t).productName)
     /\ ParseItemId(NodeAt(t).itemId) # {}
     /\ verificar_link_ativo(NodeAt(t).productLink)}

\* t was fetched before u.
FetchedBefore(t, u) ==
  \/ t[1] < u[1]
  \/ t[1] = u[1] /\ t[2] < u[2]
  \/ t[1] = u[1] /\ t[2] = u[2] /\ t[3] < u[3]

\* C26 (as stated): no record whose itemId is missing, zero or not an integer
\* is in the collected set, and every other record of the fetched pages is.
C26_NoIdRecordDroppedAlone ==
  pc = "filter" =>
    /\ \A k \in 1..Len(gross) : gross[k].itemId # 0
    /\ \A t \in TakenNodes :
         ParseItemId(NodeAt(t).itemId) # {0}
           => \E k \in 1..Len(gross) : {gross[k].itemId} = ParseItemId(NodeAt(t).itemId)

\* C27: the collected set has one record per identifier; its identifiers are
\* those of the offers of every page fetched before the failure of its
\* source, of every source; and the record of an identifier is the one
\* fetched last.
C27_KeepsWhatWasFetched ==
  pc = "filter" =>
    /\ \A k, m \in 1..Len(gross) : gross[k].itemId = gross[m].itemId => k = m
    /\ {gross[k].itemId : k \in 1..Len(gross)}
         = UNION {ParseItemId(NodeAt(t).itemId) : t \in TakenNodes}
    /\ \A k \in 1..Len(gross) : \E t \in TakenNodes :
         /\ ParseItemId(NodeAt(t).itemId) = {gross[k].itemId}
         /\ \A u \in TakenNodes :
              ParseItemId(NodeAt(u).itemId) = {gross[k].itemId} => ~FetchedBefore(t, u)
         /\ gross[k].productName = NodeAt(t).productName
         /\ gross[k].priceDiscountRate = NodeAt(t).priceDiscountRate
         /\ gross[k].ratingStar = NodeAt(t).ratingStar
         /\ gross[k].sales = NodeAt(t).sales
         /\ gross[k].shopName = NodeAt(t).shopName

\* The second request of the keyword failed after its first page gave offer
\* 1, the shop's pages were fetched and listed offer 1 with another discount
\* and offer 2: both are collected, offer 1 as the shop listed it.
C27_Witness ==
  /\ pc = "filter"
  /\ ~answer.feed["keyword"][2].ok
  /\ <<1, 1>> \in FetchedPages
  /\ <<2, 2>> \in FetchedPages
  /\ Len(gross) = 2
  /\ gross[1].itemId = 1
  /\ gross[1].priceDiscountRate = Catalog[4].priceDiscountRate
  /\ NodeAt(<<1, 1, 1>>).priceDiscountRate = Catalog[1].priceDiscountRate
  /\ gross[2].itemId = 2

\* ------------------------------------------------ claims on SpecNames
\* The ids publish_func returned True for in this run, and the normalized name
\* of the collected offer with a given id.
PublishedIds == {calls[k].pid : k \in {n \in 1..Len(calls) : calls[n].res = "ok"}}

NameOfId(pid) ==
  norm_name((CHOOSE p \in {gross[k] : k \in 1..Len(gross)} : p.itemId = pid).productName)

\* C34: within one run no two published offers have the same normalized name,
\* whichever of the three steps published them.
C34_NoTwoPublishedShareName ==
  \A a, b \in PublishedIds : a # b => NameOfId(a) # NameOfId(b)

\* ------------------------------------------------ claims on SpecFailOpen
\* The check was made inside the cooldown window of a post the store holds.
InsideWindow ==
  \E text \in answer.last :
    \E last_dt \in fromisoformat(text) : answer.at < last_dt + COOLDOWN_DIAS

\* C37: the cooldown check fails open.  Storage.can_repost returns True when
\* the stored timestamp cannot be parsed, and main's can_repost returns True
\* when the lookup raises, also inside the cooldown window of the last post;
\* in both cases main's can_repost answers that the offer is eligible, where
\* a lookup that succeeds inside the window answers that it is not.
C37_CooldownCheckFailsOpen ==
  /\ (~answer.raises /\ answer.last = {Garbled}) =>
       answer.storage = {TRUE} /\ answer.wrapper
  /\ answer.raises => answer.storage = {} /\ answer.wrapper
  /\ (~answer.raises /\ InsideWindow) => answer.storage = {FALSE} /\ ~answer.wrapper

\* A lookup that raised inside the cooldown window of the offer's last post.
C37_Witness ==
  /\ answer.raises
  /\ InsideWindow
  /\ answer.wrapper

\* ------------------------------------------------ claims on SpecIa
\* C39: when the ranking starts, ia_by_id has an entry for every deduplicated
\* candidate, and every candidate whose entry passes the gate is in the ranked
\* pool.
C39_EveryCandidateHasRelevance ==
  /\ pc = "rank" =>
       \A k \in 1..Len(candidates) : candidates[k].itemId \in DOMAIN ia_by_id
  /\ pc = "select" =>
       \A k \in 1..Len(candidates) :
         \/ candidates[k].itemId \in DOMAIN ia_by_id /\ ia_by_id[candidates[k].itemId] < MIN_IA_SCORE
         \/ \E n \in 1..Len(ranked_tuples) : ranked_tuples[n].prod = candidates[k]

\* ------------------------------------------------ claims on SpecAuth
\* The modes the request has tried, and those its loop was set up with.
TriedModes == {answer.tried[k].mode : k \in 1..Len(answer.tried)}

RequestModes == TriedModes \cup {answer.modes[k] : k \in 1..Len(answer.modes)}

\* C40: in one request of _post_graphql_auto every signing mode is tried at
\* most once; without a forced mode the last successful mode is tried first,
\* and last_auth_mode is assigned only by a response without errors, to the
\* mode of that response; with a forced mode no other mode is tried; a GraphQL
\* error that is no signature error ends the request and is returned; and
\* RuntimeError is raised only after each candidate mode was tried and
\* rejected with 401/403 or an invalid-signature error.
C40_SigningModes ==
  /\ \A a, b \in 1..Len(answer.tried) : a # b => answer.tried[a].mode # answer.tried[b].mode
  /\ (answer.forced_mode = {} /\ answer.start_last # {} /\ answer.tried # <<>>) =>
       answer.tried[1].mode \in answer.start_last
  /\ answer.last_auth_mode # answer.start_last =>
       /\ answer.result = "data"
       /\ answer.tried[Len(answer.tried)].resp = "ok"
       /\ answer.last_auth_mode = {answer.tried[Len(answer.tried)].mode}
  /\ answer.forced_mode # {} => TriedModes \subseteq answer.forced_mode
  /\ \A k \in 1..Len(answer.tried) :
       answer.tried[k].resp = "graphql_error" =>
         k = Len(answer.tried) /\ answer.result = "errors" /\ pc = "client"
  /\ answer.result = "RuntimeError" =>
       /\ TriedModes = RequestModes
       /\ TriedModes = IF answer.forced_mode # {} THEN answer.forced_mode
                       ELSE {AuthModes[k] : k \in 1..Len(AuthModes)}
       /\ \A k \in 1..Len(answer.tried) : answer.tried[k].resp \in Rejections

\* A request of a client without forced mode that tried the last successful
\* mode first, was rejected with 401 and succeeded in another mode.
C40_Witness ==
  /\ answer.forced_mode = {}
  /\ answer.start_last # {}
  /\ Len(answer.tried) >= 2
  /\ answer.tried[1].mode \in answer.start_last
  /\ answer.tried[1].resp = "http_401"
  /\ answer.result = "data"
  /\ answer.last_auth_mode # answer.start_last

\* ------------------------------------------------ claims on SpecPublish
\* C31: a publish_func call of a run that is not a dry run, for an offer with
\* an identifier, hands one message to the sink, and it returns True and adds
\* a Post Record exactly when the sink accepted the message.
C31_PublishesThroughSink ==
  (answer # NoPublish /\ ~answer.dry_run /\ answer.item_id # 0) =>
    /\ answer.sent = 1
    /\ answer.result <=> answer.sink = "ok"
    /\ (Len(posts) = answer.rows + 1) <=> answer.sink = "ok"

\* C38: a publish_func call of a dry run, for an offer with an identifier,
\* hands nothing to the sink; when record_post succeeds it adds one Post
\* Record of the offer with the current time and returns True, and
\* Storage.can_repost then answers False for the offer; it returns True only
\* when the record was written.
C38_DryRunRecordsWithoutSending ==
  (answer # NoPublish /\ answer.dry_run /\ answer.item_id # 0) =>
    /\ answer.sent = 0
    /\ answer.result <=> Len(posts) = answer.rows + 1
    /\ answer.store_ok =>
         /\ answer.result
         /\ posts[Len(posts)].item_id = answer.item_id
         /\ now < posts[Len(posts)].posted_at + COOLDOWN_DIAS
               => ~StorageCanRepost(posts, answer.item_id, COOLDOWN_DIAS)

\* A dry-run call for item 1 while the sink would have failed: recorded and
\* answered with True.
C38_Witness ==
  /\ answer.dry_run
  /\ answer.item_id = 1
  /\ answer.sink = "raise"
  /\ answer.result
  /\ answer.sent = 0
  /\ Len(posts) = answer.rows + 1
  /\ ~StorageCanRepost(posts, 1, COOLDOWN_DIAS)

====
